---- MODULE Spec2Model ----
(***************************************************************************)
(* A model of ascanvas2d's utilities: the seeded random generator          *)
(* (cyrb128 + mulberry32), the simplex-noise permutation and gradient      *)
(* tables, noise3D and curlNoise3.                                         *)
(*                                                                         *)
(* JavaScript numbers are IEEE-754 binary64.  TLC's integers are 32 bits   *)
(* wide, so the model carries its own arithmetic:                          *)
(*   - a natural number is a little-endian sequence of bytes without       *)
(*     leading zero bytes (section "naturals");                            *)
(*   - a 32-bit word is a sequence of exactly four bytes (section          *)
(*     "words"): the operands and results of ^, |, >>> and Math.imul;      *)
(*   - a double is a record [neg, man, exp] standing for                   *)
(*     (-1)^neg * man * 2^exp with man of exactly 53 bits, or the zero     *)
(*     record; every operation computes the exact result and rounds it to  *)
(*     nearest, ties to even (section "doubles").  Exponent overflow and   *)
(*     subnormals are outside the inputs the model draws.                  *)
(***************************************************************************)
EXTENDS Integers, Sequences, FiniteSets, TLC

(***************************************************************************)
(* naturals: little-endian byte sequences                                  *)
(***************************************************************************)
Pow2(n) == 2 ^ n

\* TRUE, once x is evaluated: an operator's argument is evaluated where the
\* operator first reads it, and a definition that starts with Known(x) reads x
\* before it descends into anything else
Known(x) == x = x

\* the function f on 1..n as a sequence, every element computed once
Tup(f, n) == SubSeq(f, 1, n)

\* x without its high zero bytes
Trim(x) ==
    SubSeq(x, 1, CHOOSE n \in 0..Len(x) : /\ n = 0 \/ x[n] # 0
                                         /\ \A k \in (n + 1)..Len(x) : x[k] = 0)

Byte(x, j) == IF j >= 1 /\ j <= Len(x) THEN x[j] ELSE 0

\* a small TLC integer (below 2^31) as a natural
RECURSIVE NatOf(_)
NatOf(n) == IF n = 0 THEN <<>> ELSE <<n % 256>> \o NatOf(n \div 256)

\* a natural known to be below 2^31 as a TLC integer
RECURSIVE IntOf(_)
IntOf(x) == IF x = <<>> THEN 0 ELSE x[1] + 256 * IntOf(Tail(x))

\* p = <<carry, bytes>> with the column c added: one more byte, the rest carried
CarryStep(c, p) == <<(c + p[1]) \div 256, Append(p[2], (c + p[1]) % 256)>>

\* the columns lo..hi of cols added to p from the lowest up, by halves; a
\* column may be negative (a difference), and the carry is then a borrow of -1
RECURSIVE CarryFrom(_, _, _, _)
CarryFrom(cols, lo, hi, p) ==
    IF Len(p) = 2 /\ lo = hi THEN CarryStep(cols[lo], p)
    ELSE CarryFrom(cols, (lo + hi) \div 2 + 1, hi, CarryFrom(cols, lo, (lo + hi) \div 2, p))

\* the natural with the columns cols (not empty, of sum >= 0), lowest first
Carried(p) == CASE Known(p) -> Trim(p[2] \o <<p[1] % 256, (p[1] \div 256) % 256, p[1] \div 65536>>)
OfColumns(cols) == CASE Known(cols) -> Carried(CarryFrom(cols, 1, Len(cols), <<0, (<<>>)>>))

Max(a, b) == IF a >= b THEN a ELSE b
Min(a, b) == IF a <= b THEN a ELSE b

BAdd(x, y) ==
    IF x = <<>> THEN y
    ELSE IF y = <<>> THEN x
    ELSE OfColumns(Tup([j \in 1..Max(Len(x), Len(y)) |-> Byte(x, j) + Byte(y, j)],
                       Max(Len(x), Len(y))))

\* x - y for x >= y
BSub(x, y) ==
    IF y = <<>> THEN x
    ELSE OfColumns(Tup([j \in 1..Len(x) |-> x[j] - Byte(y, j)], Len(x)))

RECURSIVE CmpFrom(_, _, _, _)
\* h when the higher bytes decide, else the order of the bytes lo..hi
CmpBelow(x, y, lo, hi, h) == IF h # 0 THEN h ELSE CmpFrom(x, y, lo, hi)
\* -1, 0, 1 as the bytes lo..hi of x are <, =, > those of y, the high half first
CmpFrom(x, y, lo, hi) ==
    IF lo > hi THEN 0
    ELSE IF lo = hi THEN (IF x[lo] < y[lo] THEN -1 ELSE IF x[lo] > y[lo] THEN 1 ELSE 0)
    ELSE CmpBelow(x, y, lo, (lo + hi) \div 2, CmpFrom(x, y, (lo + hi) \div 2 + 1, hi))

\* -1, 0, 1 as x <, =, > y (both trimmed)
BCmp(x, y) ==
    IF Len(x) < Len(y) THEN -1
    ELSE IF Len(x) > Len(y) THEN 1
    ELSE CmpFrom(x, y, 1, Len(x))

RECURSIVE ColSum(_, _, _, _, _)
\* sum of x[i] * y[k + 1 - i] for i in lo..hi, by halves
ColSum(x, y, k, lo, hi) ==
    IF lo > hi THEN 0
    ELSE IF lo = hi THEN x[lo] * y[k + 1 - lo]
    ELSE ColSum(x, y, k, lo, (lo + hi) \div 2) + ColSum(x, y, k, (lo + hi) \div 2 + 1, hi)

BMul(x, y) ==
    IF x = <<>> \/ y = <<>> THEN <<>>
    ELSE OfColumns(Tup([k \in 1..(Len(x) + Len(y) - 1) |->
                            ColSum(x, y, k, Max(1, k + 1 - Len(y)), Min(k, Len(x)))],
                       Len(x) + Len(y) - 1))

\* floor(x / 2^s)
BShr(x, s) ==
    LET q == s \div 8
        r == s % 8
    IN  IF q >= Len(x) THEN <<>>
        ELSE Trim(Tup([j \in 1..(Len(x) - q) |->
                          (x[j + q] \div Pow2(r)) + (Byte(x, j + q + 1) % Pow2(r)) * Pow2(8 - r)],
                      Len(x) - q))

\* x * 2^s
BShl(x, s) ==
    LET q == s \div 8
        r == s % 8
    IN  IF x = <<>> THEN <<>>
        ELSE Trim(Tup([j \in 1..(Len(x) + q + 1) |->
                          IF j <= q THEN 0
                          ELSE ((Byte(x, j - q) * Pow2(r)) % 256)
                               + (Byte(x, j - q - 1) \div Pow2(8 - r))],
                      Len(x) + q + 1))

\* the number of bits of a byte
BitsOfByte(b) ==
    IF b >= 16 THEN (IF b >= 64 THEN (IF b >= 128 THEN 8 ELSE 7) ELSE (IF b >= 32 THEN 6 ELSE 5))
    ELSE IF b >= 4 THEN (IF b >= 8 THEN 4 ELSE 3)
    ELSE IF b >= 2 THEN 2 ELSE b

\* the number of bits of x: 0 for zero
BitLen(x) == IF x = <<>> THEN 0 ELSE 8 * (Len(x) - 1) + BitsOfByte(x[Len(x)])

\* bit i of x (bit 0 is the lowest)
Bit(x, i) == (Byte(x, i \div 8 + 1) \div Pow2(i % 8)) % 2

\* whether x has a set bit below bit i
AnyBelow(x, i) ==
    \/ \E j \in 1..Min(Len(x), i \div 8) : x[j] # 0
    \/ Byte(x, i \div 8 + 1) % Pow2(i % 8) # 0

\* x mod 2^s
BLow(x, s) ==
    Trim(Tup([j \in 1..Min(Len(x), (s + 7) \div 8) |->
                 IF 8 * j <= s THEN x[j] ELSE x[j] % Pow2(s - 8 * (j - 1))],
             Min(Len(x), (s + 7) \div 8)))

\* the quotient digit: acc with the bit b set when (acc + 2^b) * y <= r
DigitBit(r, y, acc, b) ==
    IF BCmp(BMul(y, NatOf(acc + Pow2(b))), r) <= 0 THEN acc + Pow2(b) ELSE acc

\* acc with the bits hi..lo decided from the highest down, by halves
RECURSIVE DigitFrom(_, _, _, _, _)
DigitFrom(r, y, lo, hi, acc) ==
    IF acc >= 0 /\ lo = hi THEN DigitBit(r, y, acc, lo)
    ELSE DigitFrom(r, y, lo, (lo + hi) \div 2, DigitFrom(r, y, (lo + hi) \div 2 + 1, hi, acc))

\* the largest d in 0..255 with d * y <= r, for r < 256 * y
Digit(r, y) == DigitFrom(r, y, 0, 7, 0)

\* the quotient q extended by the digit d, and the remainder r1 - d * y
DivPut(y, q, r1, d) == <<Trim(<<d>> \o q), BSub(r1, BMul(y, NatOf(d)))>>

\* one step of long division: p is <<quotient, remainder>> of the higher bytes
DivStep(xj, y, p) ==
    IF p[2] = <<>> /\ xj = 0 THEN <<Trim(<<0>> \o p[1]), (<<>>)>>
    ELSE DivPut(y, p[1], Trim(<<xj>> \o p[2]), Digit(Trim(<<xj>> \o p[2]), y))

\* long division over the bytes lo..hi of x, by halves from the high bytes: p
\* is <<quotient, remainder>> of the bytes above hi by y, for y # 0
RECURSIVE DivFrom(_, _, _, _, _)
DivFrom(x, y, lo, hi, p) ==
    IF Len(p) = 2 /\ lo = hi THEN DivStep(x[lo], y, p)
    ELSE DivFrom(x, y, lo, (lo + hi) \div 2, DivFrom(x, y, (lo + hi) \div 2 + 1, hi, p))

\* <<quotient, remainder>> of x by y
BDivMod(x, y) == IF x = <<>> THEN <<x, x>> ELSE DivFrom(x, y, 1, Len(x), <<(<<>>), (<<>>)>>)

(***************************************************************************)
(* words: the 32-bit operands of JavaScript's bitwise operators, four      *)
(* bytes, lowest first.  A word stands for the int32 or the uint32 with    *)
(* those bits.                                                             *)
(***************************************************************************)
\* the low 32 bits of a natural
WordOfLow(x) == <<Byte(x, 1), Byte(x, 2), Byte(x, 3), Byte(x, 4)>>
WordOf(x) == CASE Known(x) -> WordOfLow(BLow(x, 32))

\* the uint32 a word stands for, as a natural
NatW(w) == Trim(w)

\* a word written as in hexadecimal, highest byte first
W4(b3, b2, b1, b0) == <<b0, b1, b2, b3>>

\* a & b on 4-bit values, as a table
AndNib ==
    [a \in 0..15 |-> [b \in 0..15 |->
        (IF a % 2 = 1 /\ b % 2 = 1 THEN 1 ELSE 0)
        + (IF (a \div 2) % 2 = 1 /\ (b \div 2) % 2 = 1 THEN 2 ELSE 0)
        + (IF (a \div 4) % 2 = 1 /\ (b \div 4) % 2 = 1 THEN 4 ELSE 0)
        + (IF a \div 8 = 1 /\ b \div 8 = 1 THEN 8 ELSE 0)]]

AndByte(a, b) == AndNib[a \div 16][b \div 16] * 16 + AndNib[a % 16][b % 16]
XorByte(a, b) == a + b - 2 * AndByte(a, b)
OrByte(a, b) == a + b - AndByte(a, b)

\* a ^ b
Xor(a, b) == <<XorByte(a[1], b[1]), XorByte(a[2], b[2]), XorByte(a[3], b[3]), XorByte(a[4], b[4])>>
\* a | b
Or(a, b) == <<OrByte(a[1], b[1]), OrByte(a[2], b[2]), OrByte(a[3], b[3]), OrByte(a[4], b[4])>>
\* a >>> s
Ushr(a, s) == WordOf(BShr(NatW(a), s))
\* Math.imul(a, b): the low 32 bits of the product
imul(a, b) == WordOf(BMul(NatW(a), NatW(b)))
\* the word of a small non-negative integer
WordN(n) == WordOf(NatOf(n))
\* whether the word, read as an int32, is negative
NegW(w) == w[4] >= 128
\* the magnitude of a negative int32: 2^32 - w
MagW(w) == BSub(<<0, 0, 0, 0, 1>>, NatW(w))

(***************************************************************************)
(* doubles: [neg, man, exp] is (-1)^neg * man * 2^exp, with man a natural  *)
(* of exactly MantBits bits; zero is DZero.                                *)
(***************************************************************************)
\* the bits of a binary64 significand
MantBits == 53

DZero == [neg |-> FALSE, man |-> <<>>, exp |-> 0]

\* the values that are not finite keep an empty significand: exp is 1 for
\* Infinity and -Infinity, 2 for NaN (0 and -0 are one value, as under ===;
\* no value of the model leaves the exponent range of a binary64)
DInf(neg) == [neg |-> neg, man |-> <<>>, exp |-> 1]
DNaN == [neg |-> FALSE, man |-> <<>>, exp |-> 2]
IsNaN(x) == x.man = <<>> /\ x.exp = 2
IsInf(x) == x.man = <<>> /\ x.exp = 1
IsZero(x) == x.man = <<>> /\ x.exp = 0
IsFinite(x) == x.man # <<>> \/ x.exp = 0

\* q * 2^e for q of MantBits or MantBits + 1 bits (a carry out of the rounding)
RoundCarry(neg, q, e) ==
    IF BitLen(q) > MantBits THEN [neg |-> neg, man |-> BShr(q, 1), exp |-> e + 1]
    ELSE [neg |-> neg, man |-> q, exp |-> e]

\* m * 2^e for m of more than MantBits bits: s bits are cut, q is what is left
RoundCut(neg, m, e, s, q) ==
    RoundCarry(neg,
               IF Bit(m, s - 1) = 1 /\ (AnyBelow(m, s - 1) \/ Bit(q, 0) = 1)
               THEN BAdd(q, <<1>>) ELSE q,
               e + s)

\* m * 2^e for m of len bits
RoundLen(neg, m, e, len) ==
    IF len = 0 THEN DZero
    ELSE IF len <= MantBits
    THEN [neg |-> neg, man |-> BShl(m, MantBits - len), exp |-> e - (MantBits - len)]
    ELSE RoundCut(neg, m, e, len - MantBits, BShr(m, len - MantBits))

\* m * 2^e rounded to nearest, ties to even
Round(neg, m, e) == RoundLen(neg, m, e, BitLen(m))

\* the double of a natural
DOfNat(x) == Round(FALSE, x, 0)
\* the double of a TLC integer
DOfInt(n) == IF n < 0 THEN Round(TRUE, NatOf(-n), 0) ELSE Round(FALSE, NatOf(n), 0)
\* n * 2^e for a TLC integer n: the double written n * 2^e
DLit(n, e) == IF n < 0 THEN Round(TRUE, NatOf(-n), e) ELSE Round(FALSE, NatOf(n), e)
DOne == DLit(1, 0)
\* the double of a uint32 word, and of an int32 word
DOfUint32(w) == DOfNat(NatW(w))
DOfInt32(w) == IF NegW(w) THEN Round(TRUE, MagW(w), 0) ELSE DOfNat(NatW(w))

DNeg(x) == IF IsZero(x) \/ IsNaN(x) THEN x ELSE [x EXCEPT !.neg = ~x.neg]

\* -1, 0, 1 as |x| <, =, > |y|
CmpMag(x, y) ==
    IF IsInf(x) THEN (IF IsInf(y) THEN 0 ELSE 1)
    ELSE IF IsInf(y) THEN -1
    ELSE IF x.man = <<>> THEN (IF y.man = <<>> THEN 0 ELSE -1)
    ELSE IF y.man = <<>> THEN 1
    ELSE IF x.exp < y.exp THEN -1
    ELSE IF x.exp > y.exp THEN 1
    ELSE BCmp(x.man, y.man)

\* -1, 0, 1 as x <, =, > y
DCmp(x, y) ==
    IF x.neg # y.neg THEN (IF x.neg THEN -1 ELSE 1)
    ELSE IF x.neg THEN -CmpMag(x, y) ELSE CmpMag(x, y)

\* x < y and x <= y, false when either is NaN
DLess(x, y) == ~IsNaN(x) /\ ~IsNaN(y) /\ DCmp(x, y) < 0
DLeq(x, y) == ~IsNaN(x) /\ ~IsNaN(y) /\ DCmp(x, y) <= 0

\* (-1)^xn * mx * 2^e + (-1)^yn * my * 2^e
AddAligned(xn, yn, mx, my, e) ==
    Round(IF xn = yn \/ BCmp(mx, my) >= 0 THEN xn ELSE yn,
          IF xn = yn THEN BAdd(mx, my)
          ELSE IF BCmp(mx, my) >= 0 THEN BSub(mx, my) ELSE BSub(my, mx),
          e)

\* x + y
DAdd(x, y) ==
    IF IsNaN(x) \/ IsNaN(y) THEN DNaN
    ELSE IF IsInf(x) THEN (IF IsInf(y) /\ x.neg # y.neg THEN DNaN ELSE x)
    ELSE IF IsInf(y) THEN y
    ELSE IF x.man = <<>> THEN y
    ELSE IF y.man = <<>> THEN x
    ELSE AddAligned(x.neg, y.neg,
                    BShl(x.man, x.exp - Min(x.exp, y.exp)),
                    BShl(y.man, y.exp - Min(x.exp, y.exp)),
                    Min(x.exp, y.exp))

\* x - y
DSub(x, y) == DAdd(x, DNeg(y))

\* x * y
DMul(x, y) ==
    IF IsNaN(x) \/ IsNaN(y) THEN DNaN
    ELSE IF IsInf(x) \/ IsInf(y)
    THEN (IF IsZero(x) \/ IsZero(y) THEN DNaN ELSE DInf(x.neg # y.neg))
    ELSE IF x.man = <<>> \/ y.man = <<>> THEN DZero
    ELSE Round(x.neg # y.neg, BMul(x.man, y.man), x.exp + y.exp)

\* the quotient qr[1] with a sticky bit for a remainder qr[2] # 0, times 2^e
RoundQuotient(neg, qr, e) ==
    Round(neg, IF qr[2] = <<>> THEN BShl(qr[1], 1) ELSE BAdd(BShl(qr[1], 1), <<1>>), e)

\* x / y: 0 / 0 is NaN and x / 0 an Infinity; else the quotient to at least
\* MantBits + 2 bits, with a sticky bit for the rest
DDiv(x, y) ==
    IF IsNaN(x) \/ IsNaN(y) THEN DNaN
    ELSE IF IsInf(x) THEN (IF IsInf(y) THEN DNaN ELSE DInf(x.neg # y.neg))
    ELSE IF IsInf(y) THEN DZero
    ELSE IF y.man = <<>> THEN (IF x.man = <<>> THEN DNaN ELSE DInf(x.neg))
    ELSE IF x.man = <<>> THEN DZero
    ELSE IF y.man = BShl(<<1>>, MantBits - 1)
    THEN [neg |-> x.neg # y.neg, man |-> x.man, exp |-> x.exp - y.exp - (MantBits - 1)]
    ELSE RoundQuotient(x.neg # y.neg, BDivMod(BShl(x.man, MantBits + 2), y.man),
                       x.exp - y.exp - (MantBits + 2) - 1)

\* the integer part of |x| as a natural (truncation)
TruncMag(x) ==
    IF x.man = <<>> THEN <<>>
    ELSE IF x.exp >= 0 THEN BShl(x.man, x.exp)
    ELSE BShr(x.man, -x.exp)

\* whether x is an integer
IsInt(x) == x.man = <<>> \/ x.exp >= 0 \/ ~AnyBelow(x.man, -x.exp)

\* ToInt32 / ToUint32: the integer part modulo 2^32, as a word
NegateW(w) == IF NatW(w) = <<>> THEN w ELSE WordOf(MagW(w))
ToInt32(x) == IF x.neg THEN NegateW(WordOf(TruncMag(x))) ELSE WordOf(TruncMag(x))

\* Math.floor
floor(x) ==
    IF IsInt(x) THEN x
    ELSE IF x.neg THEN Round(TRUE, BAdd(TruncMag(x), <<1>>), 0)
    ELSE Round(FALSE, TruncMag(x), 0)

\* the doubles next to a positive x
DNext(x) == Round(x.neg, BAdd(x.man, <<1>>), x.exp)
DPrev(x) ==
    IF x.man = BShl(<<1>>, MantBits - 1)
    THEN [x EXCEPT !.man = BSub(BShl(<<1>>, MantBits), <<1>>), !.exp = @ - 1]
    ELSE [x EXCEPT !.man = BSub(@, <<1>>)]

\* acc with the bit b set when the square stays within n
SqrtPick(n, acc, try) == IF BCmp(BMul(try, try), n) <= 0 THEN try ELSE acc
SqrtBit(n, b, acc) == SqrtPick(n, acc, BAdd(acc, BShl(<<1>>, b)))

\* acc with the bits hi..lo decided from the highest down, by halves
RECURSIVE SqrtFrom(_, _, _, _)
SqrtFrom(n, lo, hi, acc) ==
    IF Len(acc) >= 0 /\ lo = hi THEN SqrtBit(n, lo, acc)
    ELSE SqrtFrom(n, lo, (lo + hi) \div 2, SqrtFrom(n, (lo + hi) \div 2 + 1, hi, acc))

\* the integer square root of a natural
BSqrt(n) == SqrtFrom(n, 0, BitLen(n) \div 2, <<>>)

\* the even shift that brings m to 2 * MantBits + 4 or one more bits
rootShift(m) == 2 * ((2 * MantBits + 5 - BitLen(m)) \div 2)

\* m * 2^s, truncated when s is negative
shiftedBy(m, s) == IF s >= 0 THEN BShl(m, s) ELSE BShr(m, -s)

\* the root r of ms = shiftedBy(m, s) with a sticky bit for what r misses
RoundRoot(m, ms, r, s, e) ==
    Round(FALSE,
          IF BMul(r, r) = ms /\ shiftedBy(ms, -s) = m THEN BShl(r, 1) ELSE BAdd(BShl(r, 1), <<1>>),
          (e - s) \div 2 - 1)

\* the square root of m * 2^e for e even, correctly rounded
RootOf(m, ms, s, e) == RoundRoot(m, ms, BSqrt(ms), s, e)
DSqrtOf(m, e) == IF m = <<>> THEN DZero ELSE RootOf(m, shiftedBy(m, rootShift(m)), rootShift(m), e)

(***************************************************************************)
(* createRandom: cyrb128 + mulberry32                                      *)
(***************************************************************************)
\* a string is the sequence of its UTF-16 code units (charCodeAt)
EmptySeed == <<>>

H1 == W4(106, 9, 230, 103)     \* 1779033703
H2 == W4(187, 103, 174, 133)   \* 3144134277
H3 == W4(60, 110, 243, 114)    \* 1013904242
H4 == W4(165, 79, 245, 58)     \* 2773480762
K1 == W4(35, 155, 150, 27)     \* 597399067
K2 == W4(171, 14, 151, 137)    \* 2869860233
K3 == W4(56, 179, 74, 229)     \* 951274213
K4 == W4(161, 227, 139, 147)   \* 2716044179

\* one round of cyrb128's loop on the code unit k: h4 reads the new h1
cyrb128Lane4(h1, h2, h3, h, kw) == <<h1, h2, h3, Xor(h1, imul(Xor(h[4], kw), K4))>>
cyrb128Round(h, kw) ==
    cyrb128Lane4(Xor(h[2], imul(Xor(h[1], kw), K1)),
                 Xor(h[3], imul(Xor(h[2], kw), K2)),
                 Xor(h[4], imul(Xor(h[3], kw), K3)), h, kw)

RECURSIVE cyrb128Loop(_, _)
\* the four lanes after the first i code units of str
cyrb128Loop(str, i) ==
    IF i = 0 THEN <<H1, H2, H3, H4>>
    ELSE cyrb128Round(cyrb128Loop(str, i - 1), WordN(str[i]))

\* the four words returned for the final lanes
cyrb128Out(h1, h2, h3, h4) ==
    <<Xor(Xor(Xor(h1, h2), h3), h4), Xor(h2, h1), Xor(h3, h1), Xor(h4, h1)>>
\* the final avalanche: h3 reads the new h1, h4 the new h2
cyrb128Final34(h, h1, h2) ==
    cyrb128Out(h1, h2, imul(Xor(h1, Ushr(h[3], 17)), K3), imul(Xor(h2, Ushr(h[4], 19)), K4))
cyrb128Final(h) ==
    cyrb128Final34(h, imul(Xor(h[3], Ushr(h[1], 18)), K1), imul(Xor(h[4], Ushr(h[2], 22)), K2))

\* the four hash words of str
cyrb128(str) == cyrb128Final(cyrb128Loop(str, Len(str)))

Increment == W4(109, 43, 121, 245)    \* 0x6d2b79f5
TwoTo32 == DLit(1, 32)                \* 4294967296

\* return ((t ^ (t >>> 14)) | 0) / 4294967296: the draw without its >>> 0
mulberryOutSigned(t) == DDiv(DOfInt32(Xor(t, Ushr(t, 14))), TwoTo32)

\* return ((t ^ (t >>> 14)) >>> 0) / 4294967296
mulberryOut(t) == DDiv(DOfUint32(Xor(t, Ushr(t, 14))), TwoTo32)
\* t ^= t + Math.imul(t ^ (t >>> 7), t | 61)
mulberryMix2(t) ==
    Xor(t, ToInt32(DAdd(DOfInt32(t), DOfInt32(imul(Xor(t, Ushr(t, 7)), Or(t, WordN(61)))))))
\* t = Math.imul(t ^ (t >>> 15), t | 1)
mulberryMix1(t) == imul(Xor(t, Ushr(t, 15)), Or(t, WordN(1)))

\* the value drawn with the accumulator at a: the avalanche of its int32
mulberryValue(a) == mulberryOut(mulberryMix2(mulberryMix1(ToInt32(a))))

\* the accumulator after a += 0x6d2b79f5: a is a number, the sum a double's
mulberryAdvance(a) == DAdd(a, DOfUint32(Increment))

\* one call of the function mulberry32(a) returns, the closure holding the number a:
\* the new a and the value returned
mulberry32(a) == [a |-> mulberryAdvance(a), v |-> mulberryValue(mulberryAdvance(a))]

\* Math.random: the platform's source is a sequence of doubles in [0,1) the
\* program does not choose. The model lets it follow one of NStreams sequences
\* (all 0, all 1 - 2^-53, varying), chosen at its first call (stream 0: not yet
\* chosen); n counts the calls made so far
NStreams == 3
OneMinusUlp == [neg |-> FALSE, man |-> BSub(BShl(<<1>>, MantBits), <<1>>), exp |-> -MantBits]
PlatformStream(stream, n) ==
    IF stream = 1 THEN DZero
    ELSE IF stream = 2 THEN OneMinusUlp
    ELSE DLit((37 * n + 11) % 64, -6)

\* the platform states Math.random may be in when r draws from it
PlatChoices(r, pl) ==
    IF r.kind = "platform" /\ pl.stream = 0
    THEN {[pl EXCEPT !.stream = st] : st \in 1..NStreams}
    ELSE {pl}

\* the counter generator for every seed, the empty one too
_createRandomHashed(seed) ==
    [kind |-> "seeded", seed |-> seed, a |-> DOfUint32(cyrb128(seed)[1])]

\* the generator _createRandom(seed) returns: the counter generator on the first
\* hash word for a seed, Math.random itself for the empty seed
_createRandom(seed) ==
    IF seed # EmptySeed
    THEN [kind |-> "seeded", seed |-> seed, a |-> DOfUint32(cyrb128(seed)[1])]
    ELSE [kind |-> "platform", seed |-> seed, a |-> DZero]

\* one call of Math.random
platformDraw(r, pl) ==
    [a |-> r.a, plat |-> [pl EXCEPT !.n = @ + 1], v |-> PlatformStream(pl.stream, pl.n)]

\* one call of the closure mulberry32 returned
seededDraw(r, pl) == [a |-> mulberry32(r.a).a, plat |-> pl, v |-> mulberry32(r.a).v]

\* two draws where the code makes one
rDrawTwice(r, pl) ==
    IF r.kind = "seeded" THEN seededDraw([r EXCEPT !.a = mulberry32(r.a).a], pl)
    ELSE platformDraw(r, [pl EXCEPT !.n = @ + 1])

\* r(): one raw draw of the generator record r with the platform state pl;
\* the new a, the new platform state and the value
rDraw(r, pl) == IF r.kind = "seeded" THEN seededDraw(r, pl) ELSE platformDraw(r, pl)

\* the value the function createRandom returns computes from the raw draw d:
\* d itself without arguments, else d * (b - a) + a with a and b the first two
\* arguments; a b that was not passed is undefined, NaN as a number
randomValue(d, args) ==
    IF Len(args) = 0 THEN d
    ELSE DAdd(DMul(d, DSub(IF Len(args) >= 2 THEN args[2] ELSE DNaN, args[1])), args[1])

(***************************************************************************)
(* simplex noise: the tables                                               *)
(***************************************************************************)
F3 == DDiv(DOne, DOfInt(3))    \* 1.0 / 3.0
G3 == DDiv(DOne, DOfInt(6))    \* 1.0 / 6.0

\* Math.floor(x) | 0, an int32 word
fastFloor(x) == ToInt32(floor(x))

\* the 12 gradient vectors, flat: vector number n is grad3[3n + 1 .. 3n + 3]
grad3 ==
    <<1, 1, 0,    -1, 1, 0,    1, -1, 0,    -1, -1, 0,
      1, 0, 1,    -1, 0, 1,    1, 0, -1,    -1, 0, -1,
      0, 1, 1,    0, -1, 1,    0, 1, -1,    0, -1, -1>>

tableSize == 512

\* new Uint8Array(tableSize) with p[i] = i for i < tableSize / 2; entry i is p[i + 1]
IdentityTable == Tup([j \in 1..tableSize |-> IF j <= tableSize \div 2 THEN j - 1 ELSE 0], tableSize)

\* p[i] read from a Uint8Array in an assignment to one: undefined, stored as 0,
\* off its end
TableRead(p, i) == IF i \in 0..(Len(p) - 1) THEN p[i + 1] ELSE 0
\* p[i] = v: a write off the end of a typed array is dropped
TableWrite(p, i, v) == IF i \in 0..(Len(p) - 1) THEN [p EXCEPT ![i + 1] = v] ELSE p

\* p[i] = p[r] alone: the exchange that loses aux
Overwrite(p, i, r) == TableWrite(p, i, TableRead(p, r))

\* aux = p[i]; p[i] = p[r]; p[r] = aux
Exchange(p, i, r) == TableWrite(TableWrite(p, i, TableRead(p, r)), r, TableRead(p, i))

\* the signed value of an int32 word whose magnitude a TLC integer holds
IntW(w) == IF NegW(w) THEN -IntOf(MagW(w)) ELSE IntOf(NatW(w))

\* ~~(d * 256): a target drawn from the whole table at every pass
swapTargetAny(i, d) == IntW(ToInt32(DMul(d, DOfInt(256))))

\* i + ~~(d * (256 - i)) for the loop index i and the draw d
swapTarget(i, d) == i + IntW(ToInt32(DMul(d, DOfInt(256 - i))))

\* the table after the loop of lines 268-270: p[i] = p[i - 256]
Duplicate(p) == Tup([j \in 1..tableSize |-> IF j > 256 THEN p[j - 256] ELSE p[j]], tableSize)

\* grad3[(v % 12) * 3 + c + 1] with the component one place on
gradComponentNext(v, c) == grad3[(v % 12) * 3 + ((c + 1) % 3) + 1]

\* grad3[(v % 12) * 3 + c], component c of the gradient of the table entry v
gradComponent(v, c) == grad3[(v % 12) * 3 + c + 1]

\* new Float64Array(perm).map((v) => grad3[(v % 12) * 3 + c])
permGrad3(perm, c) == Tup([j \in 1..Len(perm) |-> gradComponent(perm[j], c)], Len(perm))

\* the four tables noise3D closes over
noiseTables(perm) ==
    [perm |-> perm, permGrad3x |-> permGrad3(perm, 0),
     permGrad3y |-> permGrad3(perm, 1), permGrad3z |-> permGrad3(perm, 2)]

(***************************************************************************)
(* simplex noise: noise3D                                                  *)
(***************************************************************************)
\* 0.6, 2.0 * G3 and 3.0 * G3
Point6 == DDiv(DOfInt(3), DOfInt(5))
TwoG3 == DMul(DOfInt(2), G3)
ThreeG3 == DMul(DOfInt(3), G3)

\* lines 139-185 with the ties taken the other way (> for >=, <= for <)
cornersStrict(x0, y0, z0) ==
    IF DLess(y0, x0)
    THEN IF DLess(z0, y0) THEN <<(<<1, 0, 0>>), (<<1, 1, 0>>)>>
         ELSE IF DLess(z0, x0) THEN <<(<<1, 0, 0>>), (<<1, 0, 1>>)>>
         ELSE <<(<<0, 0, 1>>), (<<1, 0, 1>>)>>
    ELSE IF DLeq(y0, z0) THEN <<(<<0, 0, 1>>), (<<0, 1, 1>>)>>
         ELSE IF DLeq(x0, z0) THEN <<(<<0, 1, 0>>), (<<0, 1, 1>>)>>
         ELSE <<(<<0, 1, 0>>), (<<1, 1, 0>>)>>

\* lines 139-185: <<(i1, j1, k1), (i2, j2, k2)>> for the offsets in the cell
corners(x0, y0, z0) ==
    IF DLeq(y0, x0)
    THEN IF DLeq(z0, y0) THEN <<(<<1, 0, 0>>), (<<1, 1, 0>>)>>
         ELSE IF DLeq(z0, x0) THEN <<(<<1, 0, 0>>), (<<1, 0, 1>>)>>
         ELSE <<(<<0, 0, 1>>), (<<1, 0, 1>>)>>
    ELSE IF DLess(y0, z0) THEN <<(<<0, 0, 1>>), (<<0, 1, 1>>)>>
         ELSE IF DLess(x0, z0) THEN <<(<<0, 1, 0>>), (<<0, 1, 1>>)>>
         ELSE <<(<<0, 1, 0>>), (<<1, 1, 0>>)>>

\* i taken whole where the code takes i & 255
cellIndexWhole(w) == IntW(w)

\* lines 195-197: i & 255 for the int32 word w of i, its low byte
cellIndex(w) == w[1]

\* base + p[n], or -1 for the NaN the sum is when n is no index of p (p[n] is
\* then undefined) or is itself NaN
indexVia(p, base, n) == IF n >= 0 /\ n < Len(p) THEN base + p[n + 1] ELSE -1

\* the indices a corner reads the tables at: kk, jj + perm[kk] and
\* gi = ii + perm[jj + perm[kk]]
lookups(T, ii, jj, kk) ==
    <<kk, indexVia(T.perm, jj, kk), indexVia(T.perm, ii, indexVia(T.perm, jj, kk))>>

\* t * t * (permGrad3x[gi] * x + permGrad3y[gi] * y + permGrad3z[gi] * z), t
\* already squared; off the tables the gradient is undefined and the sum NaN
cornerValue(T, gi, x, y, z, t) ==
    IF gi < 0 \/ gi >= Len(T.perm) THEN DNaN
    ELSE
    DMul(DMul(t, t),
         DAdd(DAdd(DMul(DOfInt(T.permGrad3x[gi + 1]), x), DMul(DOfInt(T.permGrad3y[gi + 1]), y)),
              DMul(DOfInt(T.permGrad3z[gi + 1]), z)))

\* the contribution of a corner with t = 0.6 - x*x - y*y - z*z
cornerFrom(T, gi, x, y, z, t) ==
    IF t.neg THEN DZero ELSE cornerValue(T, gi, x, y, z, DMul(t, t))

\* n0 .. n3: gi is read only when t >= 0
corner(T, ii, jj, kk, x, y, z) ==
    cornerFrom(T, lookups(T, ii, jj, kk)[3], x, y, z,
               DSub(DSub(DSub(Point6, DMul(x, x)), DMul(y, y)), DMul(z, z)))

\* lines 186-246: the four corners' contributions, summed and scaled
noiseSum(T, ii, jj, kk, x0, y0, z0, c) ==
    DMul(DOfInt(32),
         DAdd(DAdd(DAdd(corner(T, ii, jj, kk, x0, y0, z0),
                        corner(T, ii + c[1][1], jj + c[1][2], kk + c[1][3],
                               DAdd(DSub(x0, DOfInt(c[1][1])), G3),
                               DAdd(DSub(y0, DOfInt(c[1][2])), G3),
                               DAdd(DSub(z0, DOfInt(c[1][3])), G3))),
                   corner(T, ii + c[2][1], jj + c[2][2], kk + c[2][3],
                          DAdd(DSub(x0, DOfInt(c[2][1])), TwoG3),
                          DAdd(DSub(y0, DOfInt(c[2][2])), TwoG3),
                          DAdd(DSub(z0, DOfInt(c[2][3])), TwoG3))),
              corner(T, ii + 1, jj + 1, kk + 1,
                     DAdd(DSub(x0, DOne), ThreeG3),
                     DAdd(DSub(y0, DOne), ThreeG3),
                     DAdd(DSub(z0, DOne), ThreeG3))))

\* lines 127-129: the cell <<i, j, k>> of the point skewed by s
skewedCell(x, y, z, s) ==
    <<fastFloor(DAdd(x, s)), fastFloor(DAdd(y, s)), fastFloor(DAdd(z, s))>>

\* lines 131-136: <<x0, y0, z0>>, the point from the unskewed origin of cell c
offsetsFrom(x, y, z, c, t) ==
    <<DSub(x, DSub(DOfInt32(c[1]), t)), DSub(y, DSub(DOfInt32(c[2]), t)),
      DSub(z, DSub(DOfInt32(c[3]), t))>>

\* line 130: t = (i + j + k) * G3
offsetsIn(x, y, z, c) ==
    offsetsFrom(x, y, z, c, DMul(DAdd(DAdd(DOfInt32(c[1]), DOfInt32(c[2])), DOfInt32(c[3])), G3))

\* line 126: s = (x + y + z) * F3
cellOf(x, y, z) == skewedCell(x, y, z, DMul(DAdd(DAdd(x, y), z), F3))

\* lines 137-197: the simplex of the offsets o, with ii = i & 255 ...
noiseIn(T, c, o) ==
    noiseSum(T, cellIndex(c[1]), cellIndex(c[2]), cellIndex(c[3]), o[1], o[2], o[3],
             corners(o[1], o[2], o[3]))

noiseInCell(T, x, y, z, c) == noiseIn(T, c, offsetsIn(x, y, z, c))

\* twice the value noise3D returns
noise3DTwice(T, x, y, z) == DMul(DOfInt(2), noiseInCell(T, x, y, z, cellOf(x, y, z)))

\* noise3D(x, y, z) over the tables T
noise3D(T, x, y, z) == noiseInCell(T, x, y, z, cellOf(x, y, z))

\* the indices the four corners of the cell c read the tables at, for the
\* corner offsets cr = <<(i1, j1, k1), (i2, j2, k2)>>, whether or not the
\* corner contributes
cellLookups(T, c, cr) ==
    <<lookups(T, cellIndex(c[1]), cellIndex(c[2]), cellIndex(c[3])),
      lookups(T, cellIndex(c[1]) + cr[1][1], cellIndex(c[2]) + cr[1][2],
              cellIndex(c[3]) + cr[1][3]),
      lookups(T, cellIndex(c[1]) + cr[2][1], cellIndex(c[2]) + cr[2][2],
              cellIndex(c[3]) + cr[2][3]),
      lookups(T, cellIndex(c[1]) + 1, cellIndex(c[2]) + 1, cellIndex(c[3]) + 1)>>

(***************************************************************************)
(* curl of a vector field                                                  *)
(***************************************************************************)
\* the vector fields a script passes as noiseVec3: the rotation (-y, x, 0), a
\* constant field, and the linear field (2y + 3z, 5z + 7x, 11x + 13y)
ApplyField(F, pt) ==
    IF F = "rot" THEN <<DNeg(pt[2]), pt[1], DZero>>
    ELSE IF F = "const" THEN <<DOne, DOfInt(2), DOfInt(3)>>
    ELSE <<DAdd(DMul(DOfInt(2), pt[2]), DMul(DOfInt(3), pt[3])),
           DAdd(DMul(DOfInt(5), pt[3]), DMul(DOfInt(7), pt[1])),
           DAdd(DMul(DOfInt(11), pt[1]), DMul(DOfInt(13), pt[2]))>>

\* the k-th point with a second axis displaced as well
samplePointDiagonal(p, eps, k) ==
    IF k = 1 THEN <<DAdd(p[1], eps), DAdd(p[2], eps), p[3]>>
    ELSE IF k = 2 THEN <<DSub(p[1], eps), DSub(p[2], eps), p[3]>>
    ELSE IF k = 3 THEN <<p[1], DAdd(p[2], eps), DAdd(p[3], eps)>>
    ELSE IF k = 4 THEN <<p[1], DSub(p[2], eps), DSub(p[3], eps)>>
    ELSE IF k = 5 THEN <<DAdd(p[1], eps), p[2], DAdd(p[3], eps)>>
    ELSE <<DSub(p[1], eps), p[2], DSub(p[3], eps)>>

\* lines 291-296: the k-th point noiseVec3 is called at
samplePoint(p, eps, k) ==
    IF k = 1 THEN <<p[1], DAdd(p[2], eps), p[3]>>
    ELSE IF k = 2 THEN <<p[1], DSub(p[2], eps), p[3]>>
    ELSE IF k = 3 THEN <<p[1], p[2], DAdd(p[3], eps)>>
    ELSE IF k = 4 THEN <<p[1], p[2], DSub(p[3], eps)>>
    ELSE IF k = 5 THEN <<DAdd(p[1], eps), p[2], p[3]>>
    ELSE <<DSub(p[1], eps), p[2], p[3]>>

\* the two samples added where the code subtracts them
centralSum(Fplus, Fminus, c, inv2e) == DMul(DAdd(Fplus[c + 1], Fminus[c + 1]), inv2e)

\* (F_plus[c] - F_minus[c]) * inv2e, with c counted from 0 as in the code
centralDiff(Fplus, Fminus, c, inv2e) == DMul(DSub(Fplus[c + 1], Fminus[c + 1]), inv2e)

\* the curl with the two derivatives of every component exchanged
curlReversed(S, inv2e) ==
    <<DSub(centralDiff(S[3], S[4], 1, inv2e), centralDiff(S[1], S[2], 2, inv2e)),
      DSub(centralDiff(S[5], S[6], 2, inv2e), centralDiff(S[3], S[4], 0, inv2e)),
      DSub(centralDiff(S[1], S[2], 0, inv2e), centralDiff(S[5], S[6], 1, inv2e))>>

\* lines 301-313: <<cx, cy, cz>> from the six samples in the order of the calls
curlRaw(S, inv2e) ==
    <<DSub(centralDiff(S[1], S[2], 2, inv2e), centralDiff(S[3], S[4], 1, inv2e)),
      DSub(centralDiff(S[3], S[4], 0, inv2e), centralDiff(S[5], S[6], 2, inv2e)),
      DSub(centralDiff(S[5], S[6], 1, inv2e), centralDiff(S[1], S[2], 0, inv2e))>>

\* the least exponent of the non-zero components of c
minExp(c) ==
    Min(Min(IF c[1].man = <<>> THEN c[2].exp ELSE c[1].exp,
            IF c[2].man = <<>> THEN c[3].exp ELSE c[2].exp),
        IF c[3].man = <<>> THEN c[1].exp ELSE c[3].exp)

\* |x|^2 / 2^(2e), a natural, for e at most the exponent of x
squareAt(x, e) == IF x.man = <<>> THEN <<>> ELSE BMul(BShl(x.man, x.exp - e), BShl(x.man, x.exp - e))

\* the square root of cx^2 + cy^2 + cz^2, correctly rounded
hypotExact(c, e) ==
    DSqrtOf(BAdd(BAdd(squareAt(c[1], e), squareAt(c[2], e)), squareAt(c[3], e)), 2 * e)

\* Math.hypot(cx, cy, cz) is implementation-approximated: +0 when every
\* argument is 0, else the correctly rounded root or a double next to it
hypotNear(h) == IF h.man = <<>> THEN {h} ELSE {DPrev(h), h, DNext(h)}
\* Infinity when an argument is infinite, else NaN when one is NaN
hypot(c) ==
    IF \E a \in 1..3 : IsInf(c[a]) THEN {DInf(FALSE)}
    ELSE IF \E a \in 1..3 : IsNaN(c[a]) THEN {DNaN}
    ELSE hypotNear(hypotExact(c, minExp(c)))

\* the vector left as it is where the code divides it by len
notNormalized(c, len) == c

\* lines 316-317 with len = Math.hypot(cx, cy, cz): len || 1, then cx /= len ...
normalized(c, len) ==
    IF IsZero(len) \/ IsNaN(len) THEN <<DDiv(c[1], DOne), DDiv(c[2], DOne), DDiv(c[3], DOne)>>
    ELSE <<DDiv(c[1], len), DDiv(c[2], len), DDiv(c[3], len)>>

\* outScale applied to cx and cy alone
scaledPlane(c, outScale) == <<DMul(c[1], outScale), DMul(c[2], outScale), c[3]>>

\* line 320
scaled(c, outScale) == <<DMul(c[1], outScale), DMul(c[2], outScale), DMul(c[3], outScale)>>

\* lines 340-347: the three points the noiseVec3 of curlNoise3D calls noise3D at
noiseVec3Points(pt) ==
    <<pt,
      (<<DAdd(pt[1], DOfInt(17)), DAdd(pt[2], DOfInt(23)), DAdd(pt[3], DOfInt(31))>>),
      (<<DAdd(pt[1], DOfInt(53)), DAdd(pt[2], DOfInt(79)), DAdd(pt[3], DOfInt(97))>>)>>

\* lines 340-347: what that noiseVec3 returns, over the tables T of noise3D
noiseVec3(T, pt) ==
    [c \in 1..3 |-> noise3D(T, noiseVec3Points(pt)[c][1], noiseVec3Points(pt)[c][2],
                            noiseVec3Points(pt)[c][3])]

\* line 339: eps, outScale and normalize of curlNoise3D(noise3D, ...given), the
\* parameters that are not passed taking their default values
curlNoise3DArgs(given) ==
    [eps |-> IF Len(given) >= 1 THEN given[1]
             ELSE [neg |-> FALSE, man |-> <<252, 169, 241, 210, 77, 98, 16>>, exp |-> -63],
     outScale |-> IF Len(given) >= 2 THEN given[2] ELSE DOne,
     normalize |-> IF Len(given) >= 3 THEN given[3] ELSE TRUE]

(***************************************************************************)
(* the animation driver                                                    *)
(***************************************************************************)
\* lines 39-41: deltaRatio for the timestamp time, <<>> standing for undefined
\* line 40: 1000 / 60
constantTime == DDiv(DOfInt(1000), DOfInt(60))

deltaRatio(time, lastTime) ==
    DDiv(constantTime,
         IF time = <<>> \/ lastTime = <<>> THEN DNaN ELSE DOfInt(time[1] - lastTime[1]))

\* a tick that requests no next tick
afterDrawNoRequest(d, o, ok) == [d EXCEPT !.draws = Append(@, o), !.frameCount = @ + 1]

\* lines 45-53 once draw was called with the object o: ok tells whether draw
\* returned; if it threw, raf(_) and frameCount++ are not reached
afterDraw(d, o, ok) ==
    IF ok THEN [d EXCEPT !.draws = Append(@, o), !.pending = @ + 1, !.frameCount = @ + 1]
    ELSE [d EXCEPT !.draws = Append(@, o), !.pc = "thrown", !.error = "draw threw"]

\* lines 37-53, the function _ called with time on the driver d
tick(d, time, ok) ==
    IF ~d.draw
    THEN [d EXCEPT !.lastTime = time, !.pc = "thrown",
                   !.error = "TypeError: draw is not a function"]
    ELSE afterDraw([d EXCEPT !.lastTime = time],
                   [time |-> time, deltaRatio |-> deltaRatio(time, d.lastTime),
                    canvas |-> d.canvases, mouse |-> "mouse", frameCount |-> d.frameCount],
                   ok)

\* lines 67-68 if the first call of _ returned
listening(d) == IF d.pc = "thrown" THEN d ELSE [d EXCEPT !.pc = "running", !.listeners = 1]

\* lines 27-68 on the driver d with its canvas: setup is called, then _()
afterCanvas(d, now, ok) ==
    IF ~d.setup
    THEN [d EXCEPT !.pc = "thrown", !.error = "TypeError: setup is not a function"]
    ELSE listening(tick([d EXCEPT !.setupArgs = <<[canvas |-> d.canvases, mouse |-> "mouse"]>>,
                                  !.lastTime = <<now>>],
                        <<>>, ok))

\* lines 18-68: ascanvas2d(setup, draw), s and d telling whether setup and draw
\* are functions; createCanvas of line 19 creates the canvas and appends it
ascanvas2d(s, d, now, ok) ==
    afterCanvas([pc |-> "none", setup |-> s, draw |-> d, canvases |-> 1, appended |-> 1,
                 setupArgs |-> <<>>, draws |-> <<>>, frameCount |-> 0, lastTime |-> <<>>,
                 pending |-> 0, listeners |-> 0, mouse |-> [x |-> 0, y |-> 0],
                 error |-> "none"],
                now, ok)

(***************************************************************************)
(* the canvas: its size and resolution                                     *)
(***************************************************************************)
\* HTMLCanvasElement.width and .height are unsigned long: the number assigned
\* is truncated to an integer modulo 2^32
toUnsignedLong(x) == DOfUint32(ToInt32(x))

\* no element yet; sized is <<w, h>> once size(w, h, cv) or createOffCanvas(w,
\* h, ..) gave the canvas a size, densities the pixel densities
\* setCanvasResolution was called with since
NoCanvas == [made |-> FALSE, main |-> FALSE, resolution |-> DZero, width |-> DZero,
             height |-> DZero, sized |-> <<>>, densities |-> <<>>]

\* ascanvas2d.js lines 5-11: a canvas element, 300 by 150 as the platform
\* makes it, with resolution 1 and marked as the main canvas
createCanvas ==
    [NoCanvas EXCEPT !.made = TRUE, !.main = TRUE, !.resolution = DOne,
                     !.width = DOfInt(300), !.height = DOfInt(150)]

\* size(w, h, cv)
size(w, h, cv) ==
    [cv EXCEPT !.width = toUnsignedLong(DMul(w, cv.resolution)),
               !.height = toUnsignedLong(DMul(h, cv.resolution)),
               !.sized = <<w, h>>, !.densities = <<>>]

\* setCanvasResolution(pixelDensity, cv): the main canvas is resized from its
\* width and height, any other canvas is left as it is
setCanvasResolution(pixelDensity, cv) ==
    IF cv.main
    THEN [cv EXCEPT !.width = toUnsignedLong(DMul(cv.width, pixelDensity)),
                    !.height = toUnsignedLong(DMul(cv.height, pixelDensity)),
                    !.resolution = pixelDensity,
                    !.densities = Append(@, pixelDensity)]
    ELSE [cv EXCEPT !.densities = Append(@, pixelDensity)]

\* width(cv) and height(cv)
width(cv) == DDiv(cv.width, cv.resolution)
height(cv) == DDiv(cv.height, cv.resolution)

\* createOffCanvas(w, h, cv): a canvas with the resolution of cv, not marked
createOffCanvas(w, h, cv) ==
    [NoCanvas EXCEPT !.made = TRUE, !.resolution = cv.resolution,
                     !.width = toUnsignedLong(DMul(w, cv.resolution)),
                     !.height = toUnsignedLong(DMul(h, cv.resolution)),
                     !.sized = <<w, h>>]

(***************************************************************************)
(* the program's state                                                     *)
(***************************************************************************)
\* the canvases a script holds: the main canvas and an offscreen canvas
Canvases == {1, 2}
\* the <<w, h>> a script passes as a size: (100, 50) and (5, 3)
Sizes == {<<DOfInt(100), DOfInt(50)>>, <<DOfInt(5), DOfInt(3)>>}
\* the pixel densities a script passes: 2, 3 and 1.5
Densities == {DOfInt(2), DOfInt(3), DLit(3, -1)}
\* calls of setCanvasResolution a script makes on one canvas after a size
MaxResolutions == 2
\* the generator variables a script holds
Gens == {1, 2}
\* the seeds a script passes: "", "a" and "ab"
Seeds == {EmptySeed, <<97>>, <<97, 98>>}
\* calls a script makes on one generator
MaxCalls == 2
\* 1 + 2^-52, the double after 1
DOnePlusUlp == [neg |-> FALSE, man |-> BAdd(BShl(<<1>>, MantBits - 1), <<1>>), exp |-> 1 - MantBits]
\* the <<a, b>> a script passes to random(a, b): (5, 15) and (1, 1 + 2^-52)
Ranges == {<<DOfInt(5), DOfInt(15)>>, <<DOne, DOnePlusUlp>>}
\* the argument lists of another length a script passes: (5)
OtherArgs == {<<DOfInt(5)>>}
\* the noise fields a script holds, numbered in the order it creates them
Fields == {1, 2}
\* the points a script evaluates noise at: (0.3, 0.7, 1.1) and (-1.5, 2.25, 0.5)
EvalPoints ==
    <<(<<[neg |-> FALSE, man |-> <<51, 51, 51, 51, 51, 51, 19>>, exp |-> -54],
         [neg |-> FALSE, man |-> <<102, 102, 102, 102, 102, 102, 22>>, exp |-> -53],
         [neg |-> FALSE, man |-> <<154, 153, 153, 153, 153, 153, 17>>, exp |-> -52]>>),
      (<<DLit(-3, -1), DLit(9, -2), DLit(1, -1)>>)>>

\* the coordinates of the points noise3D's choice of corners is followed at
Coords == {DZero, DLit(1, -2), DLit(1, -1), DLit(3, -2), DLit(-1, -2)}
\* points far from the origin: (3072000000, 0.5, -7.25), beyond the int32
\* range, and (-1000.5, 255.75, 256.25)
FarPoints ==
    {<<DLit(46875, 16), DLit(1, -1), DLit(-29, -2)>>,
     <<DLit(-2001, -1), DLit(1023, -2), DLit(1025, -2)>>}
\* the points a script probes a noise field at
ProbePoints == (Coords \X Coords \X Coords) \cup {EvalPoints[q] : q \in DOMAIN EvalPoints}
                   \cup FarPoints
\* the vector fields, steps and scales a script passes to curlNoise3: the
\* steps are the default 0.0005, 0.5 and 0, the scales the default 1 and -3
FieldNames == {"rot", "const", "lin"}
DefaultEps == [neg |-> FALSE, man |-> <<252, 169, 241, 210, 77, 98, 16>>, exp |-> -63]
Steps == {DefaultEps, DLit(1, -1), DZero}
Scales == {DOne, DLit(-3, 0)}
\* the ticks of the loop that are followed
MaxFrames == 4
\* what Date.now() returns at line 31, and the milliseconds from one timestamp
\* of requestAnimationFrame to the next
StartTimes == {1000, 2000}
FrameTimes == {16, 17}
\* clientX and clientY of a mousemove event, left and top of the canvas
MouseAt == {10}
CanvasAt == {0, 8}
\* the arguments a script passes to curlNoise3D after noise3D: none, eps = 0.5,
\* then outScale = -3 as well, then normalize = false as well
Given == {<<>>, <<DLit(1, -1)>>, <<DLit(1, -1), DLit(-3, 0)>>,
          <<DLit(1, -1), DLit(-3, 0), FALSE>>}

VARIABLES
    gen,    \* gen[g]: the generator held in variable g, with its last call
    plat,   \* Math.random: the stream it follows and the calls made
    nf,     \* nf[f]: the noise field f, under construction or built
    ev,     \* ev[f][q]: <<v>> once noise field f returned v at EvalPoints[q]
    cs,     \* a call of noise3D on its way to the choice of the simplex
    cu,     \* a call of curlNoise3, its calls of noiseVec3 and its result
    dr,     \* the animation driver: a call of ascanvas2d and its loop
    cvs     \* cvs[c]: the canvas element c, the main one or an offscreen one

vars == <<gen, plat, nf, ev, cs, cu, dr, cvs>>

NoGen == [kind |-> "none", seed |-> EmptySeed, a |-> DZero, calls |-> 0,
          args |-> <<>>, raw |-> DZero, ret |-> DZero]

\* no createNoise3D yet: pc is "none", then "swap" inside buildPermutationTable's
\* second loop, then "ready"; r is the parameter random, i the loop's index, perm
\* the array p that is returned as perm; swaps and sw record the swaps made
NoField == [pc |-> "none", r |-> _createRandom(EmptySeed), i |-> 0, perm |-> <<>>,
            permGrad3x |-> <<>>, permGrad3y |-> <<>>, permGrad3z |-> <<>>,
            swaps |-> 0, sw |-> [i |-> 0, r |-> 0, d |-> DZero, args |-> <<>>]]

\* no call of noise3D followed: pc is "none", then "cell" once x0, y0, z0 are
\* known (o), then "corners" once i1 .. k2 are chosen (out); a call that is
\* followed to its end has pc "value" and out = <<v>> for the v returned
\* and has the field f it was made on, the cell <<i, j, k>>, the corner offsets
\* cr and the indices idx the tables were read at
NoCell == [pc |-> "none", p |-> <<>>, o |-> <<>>, out |-> <<>>, f |-> 0, cell |-> <<>>,
           cr |-> <<>>, idx |-> <<>>]

\* no call of curlNoise3: pc is "none", then "sample" while noiseVec3 is called,
\* then "done"; calls and samples are the arguments and results of noiseVec3,
\* curl is <<cx, cy, cz>> at line 313, hyp is <<h>> once Math.hypot returned h,
\* and out is the array returned; a call through the function curlNoise3D
\* returned has F = "noise", the field f passed as noise3D, the arguments
\* given after it, and in evals the points noise3D was called at
NoCurl == [pc |-> "none", p |-> <<>>, F |-> "none", eps |-> DZero, outScale |-> DZero,
           normalize |-> FALSE, calls |-> <<>>, samples |-> <<>>, curl |-> <<>>,
           hyp |-> <<>>, out |-> <<>>, f |-> 0, given |-> <<>>, evals |-> <<>>]

\* ascanvas2d not called: pc is "none", then "running" once the call returned
\* or "thrown" once it or a tick of the loop threw error; setup and draw tell
\* whether a function was passed; canvases counts document.createElement,
\* appended counts appendChild, listeners the mousemove listeners in place,
\* pending the callbacks requestAnimationFrame holds; setupArgs and draws are
\* the objects setup and draw were called with, lastTime is <<>> for undefined
NoDriver == [pc |-> "none", setup |-> FALSE, draw |-> FALSE, canvases |-> 0, appended |-> 0,
             setupArgs |-> <<>>, draws |-> <<>>, frameCount |-> 0, lastTime |-> <<>>,
             pending |-> 0, listeners |-> 0, mouse |-> [x |-> 0, y |-> 0],
             error |-> "none"]

\* nothing created and nothing called
NoScript ==
    /\ gen = [g \in Gens |-> NoGen]
    /\ plat = [stream |-> 0, n |-> 0]
    /\ nf = [f \in Fields |-> NoField]
    /\ ev = [f \in Fields |-> [q \in DOMAIN EvalPoints |-> <<>>]]
    /\ dr = NoDriver
    /\ cvs = [c \in Canvases |-> NoCanvas]

Init == NoScript /\ cs = NoCell /\ cu = NoCurl

(***************************************************************************)
(* createRandom and the calls of the function it returns                   *)
(***************************************************************************)
\* the generator record of a variable that holds createRandom(seed)
NewGen(r) == [NoGen EXCEPT !.kind = r.kind, !.seed = r.seed, !.a = r.a]

\* g = createRandom(seed)
CreateRandom(g, seed) ==
    /\ gen[g].kind = "none"
    /\ gen' = [gen EXCEPT ![g] = NewGen(_createRandom(seed))]
    /\ UNCHANGED <<plat, nf, ev, cs, cu, dr, cvs>>

\* the call g(...) with the argument list args has drawn d
Called(g, args, d) ==
    /\ gen' = [gen EXCEPT ![g] = [@ EXCEPT !.a = d.a, !.calls = @ + 1,
                                           !.args = args, !.raw = d.v,
                                           !.ret = randomValue(d.v, args)]]
    /\ plat' = d.plat

\* one call g(...) with the argument list args
Call(g, args) ==
    /\ gen[g].kind # "none"
    /\ gen[g].calls < MaxCalls
    /\ \E pl \in PlatChoices(gen[g], plat) : Called(g, args, rDraw(gen[g], pl))
    /\ UNCHANGED <<nf, ev, cs, cu, dr, cvs>>

\* g()
Call0(g) == Call(g, <<>>)
\* g(a, b)
Call2(g, rg) == Call(g, rg)
\* g(a), and any call that has neither no argument nor two
CallOther(g, args) == Call(g, args)

Next ==
    \/ \E g \in Gens, seed \in Seeds : CreateRandom(g, seed)
    \/ \E g \in Gens : Call0(g)
    \/ \E g \in Gens, rg \in Ranges : Call2(g, rg)
    \/ \E g \in Gens, args \in OtherArgs : CallOther(g, args)

Spec == Init /\ [][Next]_vars

(***************************************************************************)
(* createNoise3D, step by step through buildPermutationTable, and noise3D  *)
(***************************************************************************)
\* a call runs to completion: no other call starts inside buildPermutationTable
Building == \E f \in Fields : nf[f].pc = "swap"

\* f = createNoise3D(createRandom(seed)) up to the loop of line 262: the
\* generator, the array and its first half filled with the identity
StartBuild(f, seed) ==
    /\ ~Building
    /\ nf[f].pc = "none"
    /\ \A f2 \in Fields : f2 < f => nf[f2].pc = "ready"
    /\ nf' = [nf EXCEPT ![f] = [NoField EXCEPT !.pc = "swap", !.r = _createRandom(seed),
                                               !.perm = IdentityTable]]
    /\ UNCHANGED <<gen, plat, ev, cs, cu, dr, cvs>>

\* the arguments of the call random() of line 263
drawArgs == <<>>

\* the body of the loop of lines 262-267 with the draw d and the target r
Swapped(f, d, r) ==
    /\ nf' = [nf EXCEPT ![f] = [@ EXCEPT !.r.a = d.a,
                                         !.perm = Exchange(@, nf[f].i, r),
                                         !.i = @ + 1,
                                         !.swaps = @ + 1,
                                         !.sw = [i |-> nf[f].i, r |-> r, d |-> d.v,
                                                 args |-> drawArgs]]]
    /\ plat' = d.plat

\* the draw d of one pass of the loop
Drawn(f, d) == Swapped(f, d, swapTarget(nf[f].i, randomValue(d.v, drawArgs)))

\* one pass of the loop of lines 262-267: i < tableSize / 2 - 1
SwapStep(f) ==
    /\ nf[f].pc = "swap"
    /\ nf[f].i < tableSize \div 2 - 1
    /\ \E pl \in PlatChoices(nf[f].r, plat) : Drawn(f, rDraw(nf[f].r, pl))
    /\ UNCHANGED <<gen, ev, cs, cu, dr, cvs>>

\* the field with the tables over the array perm
WithTables(fld, T) ==
    [fld EXCEPT !.pc = "ready", !.perm = T.perm, !.permGrad3x = T.permGrad3x,
                !.permGrad3y = T.permGrad3y, !.permGrad3z = T.permGrad3z]

\* the loop of lines 262-267 is left: lines 268-271 and 110-116
FinishBuild(f) ==
    /\ nf[f].pc = "swap"
    /\ ~(nf[f].i < tableSize \div 2 - 1)
    /\ nf' = [nf EXCEPT ![f] = WithTables(@, noiseTables(Duplicate(nf[f].perm)))]
    /\ UNCHANGED <<gen, plat, ev, cs, cu, dr, cvs>>

\* a noise3D that exchanges two entries of perm as it reads them
fieldScrambled(fld) == [fld EXCEPT !.perm = Exchange(@, 0, 1)]

\* the field after a call of noise3D, which assigns to none of its tables
fieldAfterNoise3D(fld) == fld

\* v = f(x, y, z) at the point EvalPoints[q]
Eval(f, q) ==
    /\ ~Building
    /\ nf[f].pc = "ready"
    /\ ev' = [ev EXCEPT ![f][q] =
                 <<noise3D(nf[f], EvalPoints[q][1], EvalPoints[q][2], EvalPoints[q][3])>>]
    /\ nf' = [nf EXCEPT ![f] = fieldAfterNoise3D(@)]
    /\ UNCHANGED <<gen, plat, cs, cu, dr, cvs>>

\* scripts that build fields from any generator
BuildNext ==
    \/ \E f \in Fields, seed \in Seeds : StartBuild(f, seed)
    \/ \E f \in Fields : SwapStep(f)
    \/ \E f \in Fields : FinishBuild(f)

BuildSpec == Init /\ [][BuildNext]_vars

\* scripts that build fields from seeded generators and evaluate them
NoiseNext ==
    \/ \E f \in Fields, seed \in Seeds \ {EmptySeed} : StartBuild(f, seed)
    \/ \E f \in Fields : SwapStep(f)
    \/ \E f \in Fields : FinishBuild(f)
    \/ \E f \in Fields, q \in DOMAIN EvalPoints : Eval(f, q)

NoiseSpec == Init /\ [][NoiseNext]_vars

(***************************************************************************)
(* noise3D up to the choice of the simplex                                 *)
(***************************************************************************)
\* noise3D(x, y, z) is entered with x, y, z out of Coords
CellInit ==
    /\ NoScript
    /\ cu = NoCurl
    /\ \E p \in Coords \X Coords \X Coords : cs = [NoCell EXCEPT !.pc = "enter", !.p = p]

\* lines 126-136: the cell of the point and the offsets in it
EnterCell ==
    /\ cs.pc = "enter"
    /\ cs' = [cs EXCEPT !.pc = "cell",
                        !.o = offsetsIn(cs.p[1], cs.p[2], cs.p[3],
                                        cellOf(cs.p[1], cs.p[2], cs.p[3]))]
    /\ UNCHANGED <<gen, plat, nf, ev, cu, dr, cvs>>

\* lines 137-185
SelectCorners ==
    /\ cs.pc = "cell"
    /\ cs' = [cs EXCEPT !.pc = "corners", !.out = corners(cs.o[1], cs.o[2], cs.o[3])]
    /\ UNCHANGED <<gen, plat, nf, ev, cu, dr, cvs>>

CellNext == EnterCell \/ SelectCorners

CellSpec == CellInit /\ [][CellNext]_vars

(***************************************************************************)
(* noise3D called at many points of one field                              *)
(***************************************************************************)
\* the field 1 is created from a seeded generator before any call of it
BuildForProbe(seed) == cs.pc = "none" /\ StartBuild(1, seed)

\* v = f(x, y, z) at the point p, the one call that is followed
Probe(f, p) ==
    /\ nf[f].pc = "ready"
    /\ cs.pc = "none"
    /\ \E c \in {cellOf(p[1], p[2], p[3])} :
         \E o \in {offsetsIn(p[1], p[2], p[3], c)} :
           \E cr \in {corners(o[1], o[2], o[3])} :
             cs' = [pc |-> "value", p |-> p, o |-> o,
                    out |-> <<noise3D(nf[f], p[1], p[2], p[3])>>,
                    f |-> f, cell |-> c, cr |-> cr, idx |-> cellLookups(nf[f], c, cr)]
    /\ nf' = [nf EXCEPT ![f] = fieldAfterNoise3D(@)]
    /\ UNCHANGED <<gen, plat, ev, cu, dr, cvs>>

ProbeNext ==
    \/ \E seed \in Seeds \ {EmptySeed} : BuildForProbe(seed)
    \/ \E f \in Fields : SwapStep(f)
    \/ \E f \in Fields : FinishBuild(f)
    \/ \E f \in Fields, p \in ProbePoints : Probe(f, p)

ProbeSpec == Init /\ [][ProbeNext]_vars

(***************************************************************************)
(* curlNoise3, one call of noiseVec3 at a time                             *)
(***************************************************************************)
\* curlNoise3(p, noiseVec3, eps, outScale, normalize) is entered
CurlInit ==
    /\ NoScript
    /\ cs = NoCell
    /\ \E q \in DOMAIN EvalPoints, F \in FieldNames, eps \in Steps, outScale \in Scales,
          normalize \in BOOLEAN :
          cu = [NoCurl EXCEPT !.pc = "sample", !.p = EvalPoints[q], !.F = F, !.eps = eps,
                              !.outScale = outScale, !.normalize = normalize]

\* noiseVec3 is called at pt
Sampled(pt) ==
    cu' = [cu EXCEPT !.calls = Append(@, pt),
                     !.samples = Append(@, IF cu.F = "noise" THEN noiseVec3(nf[cu.f], pt)
                                           ELSE ApplyField(cu.F, pt)),
                     !.evals = IF cu.F = "noise" THEN @ \o noiseVec3Points(pt) ELSE @]

\* one of lines 291-296
CurlSample ==
    /\ cu.pc = "sample"
    /\ Len(cu.calls) < 6
    /\ Sampled(samplePoint(cu.p, cu.eps, Len(cu.calls) + 1))
    /\ UNCHANGED <<gen, plat, nf, ev, cs, dr, cvs>>

\* lines 299-320: inv2e, the curl c, len and the vector n that is scaled
CurlFinish ==
    /\ cu.pc = "sample"
    /\ Len(cu.calls) = 6
    /\ \E inv2e \in {DDiv(DOne, DMul(DOfInt(2), cu.eps))} :
         \E c \in {curlRaw(cu.samples, inv2e)} :
           \E len \in (IF cu.normalize THEN hypot(c) ELSE {DOne}) :
             \E n \in {IF cu.normalize THEN normalized(c, len) ELSE c} :
               cu' = [cu EXCEPT !.pc = "done", !.curl = c, !.hyp = IF cu.normalize THEN <<len>> ELSE <<>>,
                                !.out = scaled(n, cu.outScale)]
    /\ UNCHANGED <<gen, plat, nf, ev, cs, dr, cvs>>

CurlNext == CurlSample \/ CurlFinish

CurlSpec == CurlInit /\ [][CurlNext]_vars

(***************************************************************************)
(* curlNoise3D over a noise field                                          *)
(***************************************************************************)
\* f = createNoise3D(createRandom(seed)), before the script takes any curl
BuildForCurl(f, seed) == cu.pc = "none" /\ StartBuild(f, seed)

\* curlNoise3D(f, ...given)(p): the function returned calls curlNoise3 with its
\* noiseVec3 and the eps, outScale and normalize of line 339
Curl3DCall(f, q, given) ==
    /\ ~Building
    /\ nf[f].pc = "ready"
    /\ cu.pc # "sample"
    /\ cu' = [NoCurl EXCEPT !.pc = "sample", !.p = EvalPoints[q], !.F = "noise", !.f = f,
                            !.given = given,
                            !.eps = curlNoise3DArgs(given).eps,
                            !.outScale = curlNoise3DArgs(given).outScale,
                            !.normalize = curlNoise3DArgs(given).normalize]
    /\ UNCHANGED <<gen, plat, nf, ev, cs, dr, cvs>>

Curl3DNext ==
    \/ \E f \in Fields, seed \in Seeds \ {EmptySeed} : BuildForCurl(f, seed)
    \/ \E f \in Fields : SwapStep(f)
    \/ \E f \in Fields : FinishBuild(f)
    \/ \E f \in Fields, q \in DOMAIN EvalPoints, given \in Given : Curl3DCall(f, q, given)
    \/ CurlSample
    \/ CurlFinish

Curl3DSpec == Init /\ [][Curl3DNext]_vars

(***************************************************************************)
(* the animation driver: ascanvas2d and its loop                           *)
(***************************************************************************)
\* ascanvas2d(setup, draw), with either argument a function or left out
DriverCall(s, d) ==
    /\ dr.pc = "none"
    /\ \E now \in StartTimes, ok \in BOOLEAN : dr' = ascanvas2d(s, d, now, ok)
    /\ UNCHANGED <<gen, plat, nf, ev, cs, cu, cvs>>

\* the browser runs a callback requestAnimationFrame holds, dt after the last
Frame(dt) ==
    /\ dr.pc = "running"
    /\ dr.pending > 0
    /\ dr.frameCount < MaxFrames
    /\ \E ok \in BOOLEAN :
         dr' = tick([dr EXCEPT !.pending = @ - 1],
                    <<(IF dr.lastTime = <<>> THEN 0 ELSE dr.lastTime[1]) + dt>>, ok)
    /\ UNCHANGED <<gen, plat, nf, ev, cs, cu, cvs>>

\* lines 60-64: a mousemove event on the canvas
MouseMove(cx, cy, left, top) ==
    /\ dr.listeners > 0
    /\ dr' = [dr EXCEPT !.mouse = [x |-> cx - left, y |-> cy - top]]
    /\ UNCHANGED <<gen, plat, nf, ev, cs, cu, cvs>>

DriverNext ==
    \/ \E s \in BOOLEAN, d \in BOOLEAN : DriverCall(s, d)
    \/ \E dt \in FrameTimes : Frame(dt)
    \/ \E cx \in MouseAt, cy \in MouseAt, left \in CanvasAt, top \in CanvasAt :
          MouseMove(cx, cy, left, top)

DriverSpec == Init /\ [][DriverNext]_vars

\* the browser runs every callback requestAnimationFrame holds: a tick that
\* stays requested is run
DriverFairSpec == DriverSpec /\ WF_vars(\E dt \in FrameTimes : Frame(dt))

(***************************************************************************)
(* the canvas: scripts that size it and set its resolution                 *)
(***************************************************************************)
\* the canvas ascanvas2d creates
CreateMain ==
    /\ ~cvs[1].made
    /\ cvs' = [cvs EXCEPT ![1] = createCanvas]
    /\ UNCHANGED <<gen, plat, nf, ev, cs, cu, dr>>

\* cvs[2] = createOffCanvas(w, h, cvs[1])
CreateOff(wh) ==
    /\ cvs[1].made
    /\ ~cvs[2].made
    /\ cvs' = [cvs EXCEPT ![2] = createOffCanvas(wh[1], wh[2], cvs[1])]
    /\ UNCHANGED <<gen, plat, nf, ev, cs, cu, dr>>

\* size(w, h, cvs[c])
Size(c, wh) ==
    /\ cvs[c].made
    /\ cvs' = [cvs EXCEPT ![c] = size(wh[1], wh[2], @)]
    /\ UNCHANGED <<gen, plat, nf, ev, cs, cu, dr>>

\* setCanvasResolution(d, cvs[c])
SetCanvasResolution(c, d) ==
    /\ cvs[c].made
    /\ Len(cvs[c].densities) < MaxResolutions
    /\ cvs' = [cvs EXCEPT ![c] = setCanvasResolution(d, @)]
    /\ UNCHANGED <<gen, plat, nf, ev, cs, cu, dr>>

CanvasNext ==
    \/ CreateMain
    \/ \E wh \in Sizes : CreateOff(wh)
    \/ \E c \in Canvases, wh \in Sizes : Size(c, wh)
    \/ \E c \in Canvases, d \in Densities : SetCanvasResolution(c, d)

CanvasSpec == Init /\ [][CanvasNext]_vars

(***************************************************************************)
(* createRandom: the claims                                                *)
(***************************************************************************)
Seeded(g) == gen[g].kind = "seeded"

\* the second draw of the seed "a": 3147360890 / 2^32
SecondDrawOfA == [neg |-> FALSE, man |-> <<0, 0, 64, 79, 29, 115, 23>>, exp |-> -53]

\* C1: two generators built by createRandom from the same non-empty seed agree
\* call by call: after the same number of calls they hold the same accumulator
\* and drew the same raw value on their last call, and returned the same value
\* when both calls had no arguments
C1_SameSeedSameSequence ==
    \A g1, g2 \in Gens :
        (/\ Seeded(g1) /\ Seeded(g2)
         /\ gen[g1].seed = gen[g2].seed
         /\ gen[g1].calls = gen[g2].calls)
        => /\ gen[g1].a = gen[g2].a
           /\ gen[g1].raw = gen[g2].raw
           /\ (gen[g1].args = <<>> /\ gen[g2].args = <<>>) => gen[g1].ret = gen[g2].ret

\* both generators of the seed "a" have returned its second draw from a call
\* without arguments
C1_Witness ==
    /\ \A g \in Gens : /\ Seeded(g) /\ gen[g].seed = <<97>>
                       /\ gen[g].calls = 2 /\ gen[g].args = <<>>
    /\ gen[1].ret = SecondDrawOfA
    /\ gen[2].ret = SecondDrawOfA

\* v is n / 2^32 for an integer n of 0 .. 2^32 - 1
IsUint32Fraction(v) ==
    /\ ~v.neg
    /\ DLess(v, DOne)
    /\ IsInt(DMul(v, TwoTo32))

\* C2: every raw draw of a seeded generator, after any earlier calls, is an
\* unsigned 32-bit integer divided by 2^32, so 0 <= v < 1, and a call without
\* arguments returns that draw
C2_DrawInUnitInterval ==
    \A g \in Gens :
        (Seeded(g) /\ gen[g].calls > 0)
        => /\ IsUint32Fraction(gen[g].raw)
           /\ gen[g].args = <<>> => gen[g].ret = gen[g].raw

\* a seeded generator has returned, after an earlier call, a draw above 1/2
C2_Witness ==
    \E g \in Gens :
        /\ Seeded(g) /\ gen[g].calls = 2 /\ gen[g].args = <<>>
        /\ DLess(DLit(1, -1), gen[g].ret)
        /\ IsUint32Fraction(gen[g].ret)

\* C3: a call random(a, b) with a < b on a seeded generator returns
\* a + d * (b - a) for the raw draw d, and the result v satisfies a <= v < b
C3_RangeHalfOpen ==
    \A g \in Gens :
        (Seeded(g) /\ Len(gen[g].args) = 2 /\ DLess(gen[g].args[1], gen[g].args[2]))
        => /\ gen[g].ret = DAdd(gen[g].args[1],
                                DMul(gen[g].raw, DSub(gen[g].args[2], gen[g].args[1])))
           /\ DLeq(gen[g].args[1], gen[g].ret)
           /\ DLess(gen[g].ret, gen[g].args[2])
(***************************************************************************)
(* buildPermutationTable and the gradient tables: the claims               *)
(***************************************************************************)
Ready(f) == nf[f].pc = "ready"

\* C4: the table a field is built over has 512 entries, its entries 0..255
\* hold each value of 0..255 exactly once, and entry 256 + i equals entry i
\* (every draw function of the model returns values in [0,1))
C4_PermutationTable ==
    \A f \in Fields :
        Ready(f)
        => /\ Len(nf[f].perm) = 512
           /\ {nf[f].perm[j] : j \in 1..256} = 0..255
           /\ \A j \in 1..256 : nf[f].perm[256 + j] = nf[f].perm[j]

\* a field built from Math.random returning 1 - 2^-53 at every call: the
\* first swap brought 255 to entry 0
C4_Witness ==
    \E f \in Fields :
        /\ Ready(f) /\ nf[f].r.kind = "platform" /\ plat.stream = 2
        /\ nf[f].perm[1] = 255
        /\ {nf[f].perm[j] : j \in 1..256} = 0..255

\* the swaps made so far on field f are those of the loop indices 0 .. swaps - 1,
\* the last with the target i + floor(d * (256 - i)) within i .. 255
SwapsInOrder(f) ==
    /\ nf[f].pc = "swap" => nf[f].swaps = nf[f].i /\ nf[f].i <= 255
    /\ (nf[f].pc = "swap" /\ nf[f].i = 0) => \A j \in 1..256 : nf[f].perm[j] = j - 1
    /\ Ready(f) => nf[f].swaps = 255
    /\ nf[f].swaps > 0
       => /\ nf[f].sw.i = nf[f].swaps - 1
          /\ nf[f].sw.i <= 254
          /\ DOfInt(nf[f].sw.r - nf[f].sw.i)
                = floor(DMul(nf[f].sw.d, DOfInt(256 - nf[f].sw.i)))
          /\ nf[f].sw.i <= nf[f].sw.r
          /\ nf[f].sw.r <= 255

\* a step that changes the table of field f inside the loop is one swap: of the
\* entries i and r of the swap recorded, with the generator's next draw
OneSwap(f) ==
    (nf[f].pc = "swap" /\ nf'[f].perm # nf[f].perm)
    => IF nf'[f].pc = "swap"
       THEN /\ nf'[f].swaps = nf[f].swaps + 1
            /\ nf'[f].sw.i = nf[f].i
            /\ nf[f].r.kind = "seeded" => nf'[f].sw.d = mulberryValue(nf'[f].r.a)
            /\ \A j \in 0..511 :
                   nf'[f].perm[j + 1] =
                       IF j = nf'[f].sw.i THEN nf[f].perm[nf'[f].sw.r + 1]
                       ELSE IF j = nf'[f].sw.r THEN nf[f].perm[nf'[f].sw.i + 1]
                       ELSE nf[f].perm[j + 1]
       ELSE /\ nf'[f].swaps = nf[f].swaps
            /\ \A j \in 1..256 : nf'[f].perm[j] = nf[f].perm[j]

\* C5: buildPermutationTable starts from the identity and makes exactly 255
\* swaps, for i = 0, 1, ..., 254 in that order, each of entry i with entry
\* r = i + floor(d_i * (256 - i)), i <= r <= 255; 255 is never the loop index
C5_SwapLoop ==
    /\ [](\A f \in Fields : SwapsInOrder(f))
    /\ [][\A f \in Fields : OneSwap(f)]_vars

\* a built field whose 255th swap, of loop index 254, had the target 255
C5_Witness ==
    \E f \in Fields :
        /\ Ready(f) /\ nf[f].swaps = 255
        /\ nf[f].sw.i = 254 /\ nf[f].sw.r = 255

\* the gradient the tables hold at index g (entry g + 1)
GradientAt(f, g) == <<nf[f].permGrad3x[g + 1], nf[f].permGrad3y[g + 1], nf[f].permGrad3z[g + 1]>>

\* C9: for every g in 0..511 the gradient at g is the vector number perm[g] mod 12
\* of grad3, with exactly one component 0 and two components in {-1, 1}, and the
\* entries g and g + 256 hold the same gradient
C9_GradientTables ==
    \A f \in Fields :
        Ready(f)
        => /\ \A g \in 0..511 :
                  /\ GradientAt(f, g) = SubSeq(grad3, 3 * (nf[f].perm[g + 1] % 12) + 1,
                                               3 * (nf[f].perm[g + 1] % 12) + 3)
                  /\ Cardinality({c \in 1..3 : GradientAt(f, g)[c] = 0}) = 1
                  /\ Cardinality({c \in 1..3 : GradientAt(f, g)[c] \in {-1, 1}}) = 2
           /\ \A g \in 0..255 : GradientAt(f, g) = GradientAt(f, g + 256)

\* the field of the seed "a": perm[0] = 111, and 111 mod 12 = 3 is (-1, -1, 0)
C9_Witness ==
    \E f \in Fields :
        /\ Ready(f) /\ nf[f].r.seed = <<97>>
        /\ nf[f].perm[1] = 111
        /\ GradientAt(f, 0) = <<-1, -1, 0>>
        /\ GradientAt(f, 256) = <<-1, -1, 0>>

(***************************************************************************)
(* noise fields: the claims                                                *)
(***************************************************************************)
\* the value 0.4059177600000003 of the field of the seed "a" at (0.3, 0.7, 1.1)
NoiseOfAAtPoint1 == [neg |-> FALSE, man |-> <<111, 50, 4, 124, 142, 250, 25>>, exp |-> -54]

\* C6: two fields built by createNoise3D, each from its own generator
\* createRandom(s) of the same non-empty seed s, have identical permutation and
\* gradient tables and have returned the same value at every point both were
\* evaluated at
C6_SameSeedSameField ==
    \A f1, f2 \in Fields :
        (/\ Ready(f1) /\ Ready(f2)
         /\ nf[f1].r.seed # EmptySeed
         /\ nf[f1].r.seed = nf[f2].r.seed)
        => /\ nf[f1].perm = nf[f2].perm
           /\ nf[f1].permGrad3x = nf[f2].permGrad3x
           /\ nf[f1].permGrad3y = nf[f2].permGrad3y
           /\ nf[f1].permGrad3z = nf[f2].permGrad3z
           /\ \A q \in DOMAIN EvalPoints :
                  (ev[f1][q] # <<>> /\ ev[f2][q] # <<>>) => ev[f1][q] = ev[f2][q]

\* both fields built from the seed "a" and evaluated at (0.3, 0.7, 1.1)
C6_Witness ==
    /\ \A f \in Fields : Ready(f) /\ nf[f].r.seed = <<97>> /\ Len(nf[f].perm) = 512
    /\ nf[1].perm[1] = 111
    /\ ev[1][1] = <<NoiseOfAAtPoint1>>
    /\ ev[2][1] = <<NoiseOfAAtPoint1>>

\* C7: no step changes a table of a built field, whatever is evaluated, on
\* which field and in which order, and a point evaluated again returns the
\* value it returned before
C7_EvalReadsOnly ==
    [][\A f \in Fields :
          Ready(f)
          => /\ nf'[f].perm = nf[f].perm
             /\ nf'[f].permGrad3x = nf[f].permGrad3x
             /\ nf'[f].permGrad3y = nf[f].permGrad3y
             /\ nf'[f].permGrad3z = nf[f].permGrad3z
             /\ \A q \in DOMAIN EvalPoints : ev[f][q] # <<>> => ev'[f][q] = ev[f][q]]_vars

\* both fields evaluated at both points, with the tables a built field has
C7_Witness ==
    /\ \A f \in Fields : /\ Ready(f)
                         /\ \A q \in DOMAIN EvalPoints : ev[f][q] # <<>>
                         /\ {nf[f].perm[j] : j \in 1..256} = 0..255
    /\ ev[1][1] # ev[1][2]
(***************************************************************************)
(* noise3D's choice of the simplex: the claims                             *)
(***************************************************************************)
\* the number of components of a corner offset that are 1
Ones(c) == Cardinality({a \in 1..3 : c[a] = 1})

\* the rule of the claim for the offsets o = <<x0, y0, z0>>
CornerRule(o) ==
    IF DCmp(o[1], o[2]) >= 0
    THEN IF DCmp(o[2], o[3]) >= 0 THEN <<(<<1, 0, 0>>), (<<1, 1, 0>>)>>
         ELSE IF DCmp(o[1], o[3]) >= 0 THEN <<(<<1, 0, 0>>), (<<1, 0, 1>>)>>
         ELSE <<(<<0, 0, 1>>), (<<1, 0, 1>>)>>
    ELSE IF DCmp(o[2], o[3]) < 0 THEN <<(<<0, 0, 1>>), (<<0, 1, 1>>)>>
         ELSE IF DCmp(o[1], o[3]) < 0 THEN <<(<<0, 1, 0>>), (<<0, 1, 1>>)>>
         ELSE <<(<<0, 1, 0>>), (<<1, 1, 0>>)>>

\* C8: for every in-cell offset (x0, y0, z0) noise3D chooses (i1, j1, k1) and
\* (i2, j2, k2) by the six-branch rule on x0 >= y0, y0 >= z0, x0 >= z0; the
\* first offset has exactly one component 1 and the others 0, the second
\* exactly two, the second is componentwise >= the first, and the tie
\* x0 = y0 = z0 takes the order (x, y, z): (1, 0, 0) then (1, 1, 0)
C8_CornerSelection ==
    cs.pc = "corners" =>
        /\ cs.out = CornerRule(cs.o)
        /\ \A a \in 1..3 : cs.out[1][a] \in {0, 1} /\ cs.out[2][a] \in {0, 1}
        /\ Ones(cs.out[1]) = 1
        /\ Ones(cs.out[2]) = 2
        /\ \A a \in 1..3 : cs.out[2][a] >= cs.out[1][a]
        /\ (DCmp(cs.o[1], cs.o[2]) = 0 /\ DCmp(cs.o[2], cs.o[3]) = 0)
               => cs.out = <<(<<1, 0, 0>>), (<<1, 1, 0>>)>>

\* the corners are chosen for offsets that are all equal
C8_Witness ==
    /\ cs.pc = "corners"
    /\ DCmp(cs.o[1], cs.o[2]) = 0
    /\ DCmp(cs.o[2], cs.o[3]) = 0
    /\ cs.out = <<(<<1, 0, 0>>), (<<1, 1, 0>>)>>

(***************************************************************************)
(* curlNoise3: the claims                                                  *)
(***************************************************************************)
\* p displaced by sg * eps along the axis a alone
Displaced(p, eps, a, sg) ==
    [b \in 1..3 |-> IF b # a THEN p[b] ELSE IF sg = 1 THEN DAdd(p[b], eps) ELSE DSub(p[b], eps)]

\* whether pt is p displaced along the axis a alone, by +eps or by -eps
AlongAxis(pt, p, eps, a) ==
    \E sg \in {1, -1} : \A b \in 1..3 : pt[b] = Displaced(p, eps, a, sg)[b]

\* what noiseVec3 returned at p displaced by sg * eps along the axis a
SampleAt(a, sg) ==
    cu.samples[CHOOSE k \in 1..6 : \A b \in 1..3 : cu.calls[k][b] = Displaced(cu.p, cu.eps, a, sg)[b]]

\* the central difference of the component c of F along the axis a, the
\* quotient by 2 * eps taken as line 299 takes it: the product with 1 / (2 * eps)
Partial(c, a, inv2e) == DMul(DSub(SampleAt(a, 1)[c], SampleAt(a, -1)[c]), inv2e)

\* <<dFz/dy - dFy/dz, dFx/dz - dFz/dx, dFy/dx - dFx/dy>>
CurlOfPartials(inv2e) ==
    <<DSub(Partial(3, 2, inv2e), Partial(2, 3, inv2e)),
      DSub(Partial(1, 3, inv2e), Partial(3, 1, inv2e)),
      DSub(Partial(2, 1, inv2e), Partial(1, 2, inv2e))>>

\* C10: curlNoise3 calls F exactly six times, each time at p displaced by +eps
\* or -eps along one axis alone, once for each axis and sign, and before it
\* normalizes and scales its result is cx = dFz/dy - dFy/dz, cy = dFx/dz -
\* dFz/dx, cz = dFy/dx - dFx/dy with every derivative the central difference
\* (F(p + eps * axis) - F(p - eps * axis)) / (2 * eps)
C10_SixSamplesCurl ==
    /\ Len(cu.calls) <= 6
    /\ \A k \in 1..Len(cu.calls) :
           \E a \in 1..3 : AlongAxis(cu.calls[k], cu.p, cu.eps, a)
    /\ cu.pc = "done" =>
           /\ Len(cu.calls) = 6
           /\ \A a \in 1..3, sg \in {1, -1} :
                  \E k \in 1..6 : \A b \in 1..3 :
                      cu.calls[k][b] = Displaced(cu.p, cu.eps, a, sg)[b]
           /\ cu.curl = CurlOfPartials(DDiv(DOne, DMul(DOfInt(2), cu.eps)))
           /\ (~cu.normalize /\ cu.outScale = DOne) => cu.out = cu.curl

\* a call on the linear field returned with all six samples taken
C10_Witness ==
    /\ cu.pc = "done"
    /\ cu.F = "lin"
    /\ Len(cu.calls) = 6
    /\ ~cu.normalize
    /\ cu.curl # <<DZero, DZero, DZero>>

\* the vector (0, 0, 0)
ZeroVector == <<DZero, DZero, DZero>>

\* whether 1 / (2 * eps) is a finite number: eps is neither 0 nor NaN
StepUsable(eps) == IsFinite(DDiv(DOne, DMul(DOfInt(2), eps)))

\* C11 as stated: for a field that returns the same vector at every point,
\* curlNoise3 returns (0, 0, 0) at every point, for any eps passed and any
\* outScale, with normalize false or true
C11_ConstantFieldZeroAnyEps ==
    (cu.pc = "done" /\ cu.F = "const") => cu.out = ZeroVector

\* C11, amended: for a field that returns the same vector at every point,
\* curlNoise3 returns (0, 0, 0) at every point, for any outScale and with
\* normalize false or true, whenever 1 / (2 * eps) is finite; with eps = 0
\* every central difference is 0 * Infinity and the result is (NaN, NaN, NaN)
C11_ConstantFieldZero ==
    (cu.pc = "done" /\ cu.F = "const") =>
        /\ \A k \in 1..6 : cu.samples[k] = cu.samples[1]
        /\ StepUsable(cu.eps) => cu.curl = ZeroVector /\ cu.out = ZeroVector
        /\ IsZero(cu.eps) => \A a \in 1..3 : IsNaN(cu.curl[a]) /\ IsNaN(cu.out[a])

\* a normalized, scaled call on the constant field returned with a usable step
C11_Witness ==
    /\ cu.pc = "done"
    /\ cu.F = "const"
    /\ cu.eps = DefaultEps
    /\ cu.normalize
    /\ cu.outScale # DOne
    /\ cu.out = ZeroVector

\* whether every component of v is a finite number
FiniteVector(v) == \A a \in 1..3 : IsFinite(v[a])

\* 2^-48, the relative error allowed for a squared length: Math.hypot, the
\* division and the product each round their result
Tolerance == DLit(1, -48)

\* the double nearest to v[1]^2 + v[2]^2 + v[3]^2, the sum taken exactly
SquaredLength(v) ==
    IF v = ZeroVector THEN DZero
    ELSE Round(FALSE,
               BAdd(BAdd(squareAt(v[1], minExp(v)), squareAt(v[2], minExp(v))),
                    squareAt(v[3], minExp(v))),
               2 * minExp(v))

\* whether x is y within the relative error Tolerance, for y >= 0
Near(x, y) ==
    /\ DLeq(DMul(y, DSub(DOne, Tolerance)), x)
    /\ DLeq(x, DMul(y, DAdd(DOne, Tolerance)))

\* whether the Euclidean length of v is |s| within the tolerance
HasLength(v, s) == FiniteVector(v) /\ Near(SquaredLength(v), DMul(s, s))

\* C12 as stated: with normalize = true curlNoise3 returns a vector of
\* Euclidean length 1 for any field, point, eps and outScale, unless the curl
\* computed is exactly (0, 0, 0), and then it returns the zero vector
C12_UnitLengthAnyScale ==
    (cu.pc = "done" /\ cu.normalize) =>
        IF cu.curl = ZeroVector THEN cu.out = ZeroVector ELSE HasLength(cu.out, DOne)

\* C12, amended: with normalize = true and a finite curl that is not
\* (0, 0, 0), curlNoise3 returns a vector of Euclidean length |outScale|
\* (length 1 for outScale = 1) within floating-point tolerance; when the curl
\* is exactly (0, 0, 0), Math.hypot returns 0, the divisor is replaced by 1,
\* no division by zero happens and the result is the zero vector; when the
\* curl is (NaN, NaN, NaN), as with eps = 0, so is the result
C12_UnitLength ==
    (cu.pc = "done" /\ cu.normalize) =>
        /\ Len(cu.hyp) = 1
        /\ cu.curl = ZeroVector =>
               /\ cu.hyp = <<DZero>>
               /\ \A a \in 1..3 : cu.out[a] = DMul(DDiv(cu.curl[a], DOne), cu.outScale)
               /\ cu.out = ZeroVector
        /\ (FiniteVector(cu.curl) /\ cu.curl # ZeroVector) =>
               /\ ~IsZero(cu.hyp[1])
               /\ \A a \in 1..3 : cu.out[a] = DMul(DDiv(cu.curl[a], cu.hyp[1]), cu.outScale)
               /\ HasLength(cu.out, cu.outScale)
        /\ ~FiniteVector(cu.curl) => \A a \in 1..3 : IsNaN(cu.out[a])

\* Math.hypot returned 0 for a curl of (0, 0, 0) and the zero vector came back
C12_Witness ==
    /\ cu.pc = "done"
    /\ cu.normalize
    /\ cu.curl = ZeroVector
    /\ cu.hyp = <<DZero>>
    /\ cu.outScale = DOne
    /\ cu.out = ZeroVector

\* |x| for a finite x
DAbs(x) == [x EXCEPT !.neg = FALSE]

\* a call on the rotation field (-y, x, 0), not normalized, with outScale 1
\* and a step that is not 0
RotationCall ==
    /\ cu.pc = "done"
    /\ cu.F = "rot"
    /\ ~cu.normalize
    /\ cu.outScale = DOne
    /\ ~IsZero(cu.eps)

\* 2^-52 * (|x| + |y| + 10 * |eps|): the points x + eps, x - eps, y + eps and
\* y - eps are rounded, and so are the differences, 1 / (2 * eps), the
\* products and cz
RotationError ==
    DMul(DLit(1, -52),
         DAdd(DAdd(DAbs(cu.p[1]), DAbs(cu.p[2])), DMul(DOfInt(10), DAbs(cu.eps))))

Divisor == IF IsZero(cu.hyp[1]) \/ IsNaN(cu.hyp[1]) THEN DOne ELSE cu.hyp[1]

\* what the call returns with outScale = 1 and everything else the same
ResultAtScaleOne ==
    [a \in 1..3 |-> DMul(IF cu.normalize THEN DDiv(cu.curl[a], Divisor) ELSE cu.curl[a], DOne)]

\* C14: outScale is applied last and to all three components: for any field,
\* point, eps and normalize flag the result with outScale = s is, component by
\* component, s times the result with outScale = 1; with normalize = true and
\* a curl that is finite and not zero the vector returned has length |s|
\* (within floating-point tolerance)
C14_ScaleAppliedLast ==
    cu.pc = "done" =>
        /\ \A a \in 1..3 : cu.out[a] = DMul(cu.outScale, ResultAtScaleOne[a])
        /\ (cu.normalize /\ FiniteVector(cu.curl) /\ cu.curl # ZeroVector) =>
               HasLength(cu.out, cu.outScale)

\* a normalized curl that is not zero came back scaled by -3, with length 3
C14_Witness ==
    /\ cu.pc = "done"
    /\ cu.normalize
    /\ cu.F = "lin"
    /\ cu.outScale = DLit(-3, 0)
    /\ cu.curl # ZeroVector
    /\ HasLength(cu.out, DLit(-3, 0))
    /\ ~HasLength(cu.out, DOne)

(***************************************************************************)
(* createRandom: the source of the draws, the two modes, the accumulator   *)
(***************************************************************************)
\* the step is the return of g = createRandom(seed)
Creates(g) == gen[g].kind = "none" /\ gen'[g].kind # "none"

\* the step is one call of the function held in g
Calls(g) == gen[g].kind # "none" /\ gen'[g].calls = gen[g].calls + 1

\* C15: the seed alone selects the source of the draws: with the seed ""
\* (the default of createRandom()) every draw is one call of Math.random and
\* neither the hash nor the counter generator runs; with any other seed the
\* accumulator starts at the first word of cyrb128(seed), every draw is one
\* step of the counter generator and Math.random is never called
C15_SeedSelectsSource ==
    [][\A g \in Gens :
          /\ Creates(g) =>
                /\ plat' = plat
                /\ IF gen'[g].seed = EmptySeed
                   THEN gen'[g].kind = "platform" /\ gen'[g].a = DZero
                   ELSE /\ gen'[g].kind = "seeded"
                        /\ gen'[g].a = DOfUint32(cyrb128(gen'[g].seed)[1])
          /\ Calls(g) =>
                IF gen[g].seed = EmptySeed
                THEN /\ plat'.n = plat.n + 1
                     /\ gen'[g].raw = PlatformStream(plat'.stream, plat.n)
                     /\ gen'[g].a = gen[g].a
                ELSE /\ plat' = plat
                     /\ gen'[g].a = DAdd(gen[g].a, DOfUint32(Increment))
                     /\ gen'[g].raw = mulberryValue(gen'[g].a)]_vars

\* a generator of the seed "" and one of the seed "a" have both been called
\* twice, and Math.random was called twice
C15_Witness ==
    /\ gen[1].seed = EmptySeed /\ gen[1].kind = "platform" /\ gen[1].calls = 2
    /\ gen[2].seed = <<97>> /\ gen[2].kind = "seeded" /\ gen[2].calls = 2
    /\ plat.n = 2

\* the accumulator of the generator of a seed after k draws, as line 45 adds
RECURSIVE AccAfter(_, _)
AccAfter(seed, k) ==
    IF k = 0 THEN DOfUint32(cyrb128(seed)[1])
    ELSE DAdd(AccAfter(seed, k - 1), DOfUint32(Increment))

\* the k-th element of the raw sequence of a seed
RawDraw(seed, k) == mulberryValue(AccAfter(seed, k))

\* the calls made so far on the generators of S, all together
RECURSIVE SumCalls(_)
SumCalls(S) ==
    IF S = {} THEN 0
    ELSE gen[CHOOSE g \in S : TRUE].calls + SumCalls(S \ {CHOOSE g \in S : TRUE})

\* C16: the function returned has two modes chosen by the number of
\* arguments: without arguments it returns the raw draw, with the arguments
\* (a, b) the draw mapped to the range, and a call with one argument takes
\* the second mode with b undefined; a call of any arity consumes exactly one raw
\* draw, so the k-th call of a seeded generator is computed from the k-th
\* element of the raw sequence of its seed whatever the earlier calls were,
\* and Math.random has been called once for every call made on a generator
\* of the seed ""
C16_ArityModes ==
    /\ plat.n = SumCalls({g \in Gens : gen[g].kind = "platform"})
    /\ \A g \in Gens :
          gen[g].calls > 0 =>
              /\ Seeded(g) =>
                     /\ gen[g].a = AccAfter(gen[g].seed, gen[g].calls)
                     /\ gen[g].raw = RawDraw(gen[g].seed, gen[g].calls)
              /\ Len(gen[g].args) = 0 => gen[g].ret = gen[g].raw
              /\ Len(gen[g].args) >= 2 =>
                     gen[g].ret = DAdd(DMul(gen[g].raw,
                                            DSub(gen[g].args[2], gen[g].args[1])),
                                       gen[g].args[1])
              /\ Len(gen[g].args) = 1 => IsNaN(gen[g].ret)

\* the second call of the generator of "a" had the arguments (5, 15) and
\* returned its second raw draw mapped to the range
C16_Witness ==
    \E g \in Gens :
        /\ Seeded(g) /\ gen[g].seed = <<97>>
        /\ gen[g].calls = 2
        /\ gen[g].args = <<DOfInt(5), DOfInt(15)>>
        /\ gen[g].raw = SecondDrawOfA
        /\ gen[g].ret = DAdd(DMul(SecondDrawOfA, DOfInt(10)), DOfInt(5))

(***************************************************************************)
(* curlNoise3D: the claims                                                 *)
(***************************************************************************)
\* a call through the function curlNoise3D returned has returned
Curl3DDone == cu.pc = "done" /\ cu.F = "noise"

\* the field F(x, y, z) = (noise(x, y, z), noise(x + 17, y + 23, z + 31),
\* noise(x + 53, y + 79, z + 97)) over the field the call was given
FieldOfNoise(pt) ==
    <<noise3D(nf[cu.f], pt[1], pt[2], pt[3]),
      noise3D(nf[cu.f], DAdd(pt[1], DOfInt(17)), DAdd(pt[2], DOfInt(23)),
              DAdd(pt[3], DOfInt(31))),
      noise3D(nf[cu.f], DAdd(pt[1], DOfInt(53)), DAdd(pt[2], DOfInt(79)),
              DAdd(pt[3], DOfInt(97)))>>

\* the call is curlNoise3(p, F, eps, outScale, normalize) on that field: the
\* six samples are F at the six points, noise is evaluated 18 times, and the
\* curl of the samples is normalized if asked and scaled
EqualsCurlNoise3 ==
    /\ Len(cu.evals) = 18
    /\ \A k \in 1..6 :
          /\ cu.calls[k] = samplePoint(cu.p, cu.eps, k)
          /\ \A c \in 1..3 : cu.samples[k][c] = FieldOfNoise(cu.calls[k])[c]
    /\ cu.curl = CurlOfPartials(DDiv(DOne, DMul(DOfInt(2), cu.eps)))
    /\ \A a \in 1..3 : cu.out[a] = DMul(cu.outScale, ResultAtScaleOne[a])

\* C17: curlNoise3D(noise, eps, outScale, normalize)(p) is curlNoise3(p, F,
\* eps, outScale, normalize) for the field F built on noise with the offsets
\* (17, 23, 31) and (53, 79, 97), one call evaluates noise 18 times, and the
\* arguments left out are eps = 0.0005, outScale = 1.0 and normalize = false,
\* so that curlNoise3D(noise)(p) returns the curl as it was computed
C17_Curl3DDefaults ==
    Curl3DDone =>
        /\ EqualsCurlNoise3
        /\ cu.eps = IF Len(cu.given) >= 1 THEN cu.given[1] ELSE DefaultEps
        /\ cu.outScale = IF Len(cu.given) >= 2 THEN cu.given[2] ELSE DOne
        /\ cu.normalize = IF Len(cu.given) >= 3 THEN cu.given[3] ELSE FALSE
        /\ Len(cu.given) = 0 => cu.out = cu.curl

(***************************************************************************)
(* the animation driver: the claims                                        *)
(***************************************************************************)
\* ascanvas2d was called with setup or draw missing
MissingCallback == dr.pc # "none" /\ (~dr.setup \/ ~dr.draw)

\* C18: starting the driver with the setup callback or the draw callback
\* missing fails fast with a descriptive error at the call boundary: the
\* error is raised before a canvas is created or appended to the document,
\* before setup runs and before any frame is scheduled
C18_FailFast ==
    MissingCallback =>
        /\ dr.pc = "thrown"
        /\ dr.error = "setup y draw son requeridos"
        /\ dr.canvases = 0
        /\ dr.appended = 0
        /\ dr.setupArgs = <<>>
        /\ dr.pending = 0

(***************************************************************************)
(* noise3D: the range of its values                                        *)
(***************************************************************************)
\* 1.2, the bound on |v|
NoiseBound == DDiv(DOfInt(6), DOfInt(5))

\* C19: for every noise field and every finite point noise3D returns a
\* finite number whose absolute value is at most about 1.2
C19_NoiseBounded ==
    cs.pc = "value" =>
        /\ IsFinite(cs.out[1])
        /\ DLeq(DAbs(cs.out[1]), NoiseBound)

\* noise3D returned a value above 1/2 in absolute value, and one that is
\* not an integer
C19_Witness ==
    /\ cs.pc = "value"
    /\ DLess(DLit(1, -1), DAbs(cs.out[1]))
    /\ ~IsInt(cs.out[1])

(***************************************************************************)
(* mulberry32: the accumulator                                             *)
(***************************************************************************)
\* (the first hash word of the seed + k * 0x6d2b79f5) mod 2^32, as a number
CounterAfter(seed, k) ==
    DOfUint32(WordOf(BAdd(NatW(cyrb128(seed)[1]), BMul(NatOf(k), NatW(Increment)))))

\* C20: the accumulator of a seeded generator is one unsigned 32-bit integer:
\* after every draw it is in 0 .. 2^32 - 1 and is (the value before +
\* 0x6d2b79f5) mod 2^32, and the k-th draw returns the avalanche function of
\* (seed word + k * 0x6d2b79f5) mod 2^32
C20_AccumulatorUint32 ==
    \A g \in Gens :
        Seeded(g) =>
            /\ IsInt(gen[g].a)
            /\ DLeq(DZero, gen[g].a)
            /\ DLess(gen[g].a, TwoTo32)
            /\ gen[g].a = CounterAfter(gen[g].seed, gen[g].calls)
            /\ gen[g].calls > 0 =>
                   gen[g].raw = mulberryValue(CounterAfter(gen[g].seed, gen[g].calls))

(***************************************************************************)
(* noise3D: the table lookups and the cell                                 *)
(***************************************************************************)
InTable(n) == n \in 0..(tableSize - 1)

\* C21: every index an evaluation uses is in range: for each of the four
\* corners, kk + k1 and jj + j1 + perm[kk + k1] index the permutation table
\* within 0..511 and gi = ii + i1 + perm[jj + j1 + perm[kk + k1]] indexes the
\* gradient tables within 0..511
C21_IndicesInRange ==
    cs.pc = "value" => \A c \in 1..4 : \A n \in 1..3 : InTable(cs.idx[c][n])

\* an evaluation in a cell with a negative coordinate read a table at an index
\* above 255
C21_Witness ==
    /\ cs.pc = "value"
    /\ \E a \in 1..3 : IntW(cs.cell[a]) < 0
    /\ \E c \in 1..4 : \E n \in 1..3 : cs.idx[c][n] > 255

\* the multiples of 256 a cell coordinate is moved by
Shifts == {-1, 1, 1000}

\* the cell coordinate i + 256 * a, as the int32 the code holds it in
Shifted(w, a) == ToInt32(DOfInt(IntW(w) + 256 * a))

\* C22: the gradient chosen for a corner depends on the cell only modulo 256:
\* the indices computed for the cell (i + 256a, j + 256b, k + 256c) with the
\* same corner offsets are those computed for the cell (i, j, k)
C22_CellModulo256 ==
    cs.pc = "value" =>
        \A a \in Shifts, b \in Shifts, c \in Shifts :
            cellLookups(nf[cs.f],
                        <<Shifted(cs.cell[1], a), Shifted(cs.cell[2], b),
                          Shifted(cs.cell[3], c)>>, cs.cr) = cs.idx

\* an evaluation in a cell with a negative coordinate, whose coordinate moved
\* by 256 is another int32
C22_Witness ==
    /\ cs.pc = "value"
    /\ \E a \in 1..3 :
         /\ IntW(cs.cell[a]) < 0
         /\ Shifted(cs.cell[a], 1) # cs.cell[a]
         /\ IntW(Shifted(cs.cell[a], 1)) = IntW(cs.cell[a]) + 256

\* the skew s = (x + y + z) * F3 of the point p
skewOf(p) == DMul(DAdd(DAdd(p[1], p[2]), p[3]), F3)

\* C23: for every finite point the cell origin is the mathematical floor:
\* i = floor(x + s), j = floor(y + s), k = floor(z + s), also where the sum is
\* negative or outside [-2^31, 2^31)
C23_CellIsFloor ==
    cs.pc = "value" =>
        \A a \in 1..3 : DOfInt32(cs.cell[a]) = floor(DAdd(cs.p[a], skewOf(cs.p)))

(***************************************************************************)
(* createNoise3D: the draws it makes                                       *)
(***************************************************************************)
\* the accumulator of the generator of a seed after k draws, k below 2^21
Accumulated(seed, k) ==
    DAdd(DOfUint32(cyrb128(seed)[1]), DMul(DOfInt(k), DOfUint32(Increment)))

\* the draws of a seeded generator a field has made so far: one for each pass
\* of the loop, each without arguments, 255 when the field is built, and the
\* next draw of the generator of a built field is element 256 of the sequence
DrawsOfBuild(f) ==
    /\ nf[f].r.a = Accumulated(nf[f].r.seed, nf[f].swaps)
    /\ nf[f].swaps = nf[f].i
    /\ nf[f].swaps > 0 => nf[f].sw.args = <<>>
    /\ Ready(f) => /\ nf[f].swaps = 255
                   /\ rDraw(nf[f].r, plat).v =
                          mulberryValue(Accumulated(nf[f].r.seed, 256))

SetupThenDraws ==
    /\ Len(dr.draws) > 0 => Len(dr.setupArgs) = 1
    /\ (dr.setup /\ dr.pc # "none") => Len(dr.setupArgs) = 1
    /\ \A n \in 1..Len(dr.draws) :
           /\ dr.draws[n].canvas = dr.setupArgs[1].canvas
           /\ dr.draws[n].mouse = dr.setupArgs[1].mouse
           /\ dr.draws[n].frameCount = n - 1

\* one chain of ticks: never two ticks requested, and one while the loop runs
OneChain == dr.pending <= 1 /\ (dr.pc = "running" => dr.pending = 1)

\* C24: setup is called exactly once and before the first draw, with the
\* canvas and mouse every draw receives; the n-th draw receives frameCount =
\* n - 1; every tick requests exactly one next tick, so the loop runs one chain
\* of ticks and, as long as draw returns, does not stop: it goes on to the
\* last frame the model follows
C24_DriverLoop ==
    /\ [](SetupThenDraws /\ OneChain)
    /\ [][(dr.pc = "running" /\ dr'.pc = "running" /\ dr'.draws # dr.draws)
          => /\ Len(dr'.draws) = Len(dr.draws) + 1
             /\ dr'.frameCount = dr.frameCount + 1
             /\ dr'.setupArgs = dr.setupArgs]_vars
    /\ (dr.pc = "running") ~> (dr.pc = "thrown" \/ dr.frameCount = MaxFrames)

\* the loop has called draw three times and holds one requested tick
C24_Witness ==
    /\ dr.pc = "running"
    /\ Len(dr.setupArgs) = 1
    /\ Len(dr.draws) = 3
    /\ dr.draws[3].frameCount = 2
    /\ dr.frameCount = 3
    /\ dr.pending = 1

(***************************************************************************)
(* the canvas: width and height                                            *)
(***************************************************************************)
Positive(d) == ~d.neg /\ ~IsZero(d) /\ ~IsNaN(d)

\* C26: after size(w, h, cv) and any later calls setCanvasResolution(d, cv)
\* with d > 0 on the main canvas, width(cv) = w and height(cv) = h; and
\* setCanvasResolution on a canvas that is not the main canvas changes neither
\* its width, height nor resolution
C26_LogicalSize ==
    /\ [](\A c \in Canvases :
            (/\ cvs[c].main
             /\ cvs[c].sized # <<>>
             /\ \A n \in 1..Len(cvs[c].densities) : Positive(cvs[c].densities[n]))
            => /\ width(cvs[c]) = cvs[c].sized[1]
               /\ height(cvs[c]) = cvs[c].sized[2])
    /\ [][\A c \in Canvases :
            (cvs[c].made /\ ~cvs[c].main /\ cvs'[c].sized = cvs[c].sized)
            => /\ cvs'[c].width = cvs[c].width
               /\ cvs'[c].height = cvs[c].height
               /\ cvs'[c].resolution = cvs[c].resolution]_vars

====
